---------------------------- MODULE Spec2Model ----------------------------
(***************************************************************************)
(* Model of the freebird event ingestion pipeline:                         *)
(*   vicohome/auth.py    AuthManager (bearer token, expiry, cache file)    *)
(*   vicohome/api.py     VicoHomeAPI._request / get_events                 *)
(*   storage/database.py Database (sightings table)                        *)
(*   pipeline.py         Pipeline.run / _poll_cycle / _process_event       *)
(*   bot/telegram.py     TelegramBot.send_lifer_alert / send_error_alert   *)
(*   analysis/vision.py  analyze_image (result and audit row)              *)
(*   analysis/birdnet.py BirdAnalyzer.analyze                              *)
(*   backfill.py         backfill()                                        *)
(*   vision_backfill.py  run()                                             *)
(*   main.py             _run (the event loop, the shutdown sequence)      *)
(* Time is time.time() in seconds, relative to the construction of the     *)
(* pipeline, observed every TickStep seconds.                              *)
(***************************************************************************)
EXTENDS Integers, Sequences, FiniteSets, TLC

\* ---------------------------------------------------------------- bounds
ApiTicks == 3      \* Spec: the clock stops after this many ticks
HealthTicks == 8   \* SpecHealth: the clock stops after this many ticks
IngestTicks == 1   \* SpecIngest: the clock stops after this many ticks
MaxTok == 3        \* the login endpoint issues at most this many tokens
MaxTrace == 2      \* trace identifiers the remote source may hold
MaxWindow == 2     \* events returned in one window
LookbackTicks == 3 \* SpecLookback: the clock stops after this many long ticks
AppTicks == 3      \* SpecApp: the clock stops after this many ticks
MaxCommands == 1   \* commands the user sends during a run

\* ------------------------------------------------------ program constants
ERROR_ALERT_THRESHOLD == 5 * 60
POLL_INTERVAL_SECONDS == 15
TOKEN_TTL_SECONDS == 23 * 60 * 60
AUTH_ERROR_CODES == {-1024, -1025, -1026, -1027}

\* granularity at which the clock is observed
TickStep == ERROR_ALERT_THRESHOLD \div 2

\* ------------------------------------------------------------ value sets
None == "None"                      \* Python None / SQL NULL / absent key
NoToken == 0                        \* AuthManager._token is None
Tokens == 1..MaxTok
TraceIds == 1..MaxTrace
Species == {"Blue Jay", "Cardinal"}

RECURSIVE SeqsUpTo(_, _)
SeqsUpTo(S, n) ==
  IF n = 0 THEN {<<>>}
  ELSE LET shorter == SeqsUpTo(S, n - 1)
       IN  shorter \cup {Append(s, x) : s \in {t \in shorter : Len(t) = n - 1}, x \in S}

\* what the event-list endpoint may hold in one lookback window, in order;
\* the same trace identifier may appear more than once
Windows == SeqsUpTo(TraceIds, MaxWindow)

\* response bodies of the API: an HTML page, or a JSON object (a function
\* from the keys it carries among "result", "code", "msg" to their values)
CodeValues == {-1024, -1, 0}
Messages == {"success", "Token expired", "server busy"}
BodiesWith(bodies, key, values) ==
  bodies \cup {b @@ (key :> v) : b \in bodies, v \in values}
JsonBodies ==
  BodiesWith(BodiesWith(BodiesWith({<<>>}, "result", CodeValues), "code", CodeValues),
             "msg", Messages)
Responses == {[kind |-> "html"]} \cup {[kind |-> "json", body |-> b] : b \in JsonBodies}

VARIABLES
  now,             \* time.time()
  token,           \* AuthManager._token
  expires_at,      \* AuthManager._expires_at
  cache,           \* CACHE_PATH: whether the file exists, and its contents
  issued,          \* tokens issued by the login endpoint so far
  pc,              \* position of the Pipeline.run task
  cyc,             \* "boot": the bootstrap cycle, "loop": a cycle of the while loop
  attempt,         \* loop variable of VicoHomeAPI._request
  wake,            \* deadline of asyncio.sleep
  last_success,    \* Pipeline._last_success
  error_alerted,   \* Pipeline._error_alerted
  events,          \* events of the current cycle still to be iterated
  loc,             \* locals of _process_event across its awaits
  sightings,       \* rows of the sightings table, in insertion order
  lifer_alerts,    \* calls of TelegramBot.send_lifer_alert
  alerts,          \* calls of TelegramBot.send_error_alert
  callLog,         \* history: what the current (or last) _request call did
  lastOkAt,        \* history: when the last _poll_cycle returned normally
  streakAlerts,    \* history: error alerts since the last successful loop cycle
  lastCycle,       \* history: how the most recent cycle ended
  completed,       \* history: sighting ids whose _process_event returned
  insertCalls,     \* history: calls of insert_sighting per trace identifier
  cycleStart,      \* history: `now` computed by the current (or last) _poll_cycle
  inputs,          \* history: what the classifier and the vendor said of the event
                   \* of the current iteration of the for loop of _poll_cycle
  vision_analyses, \* rows of the vision_analyses table, in the order of their ids
  bf,              \* the backfill script (backfill.py), a process of its own
  vb,              \* the vision backfill script (vision_backfill.py), likewise
  main,            \* main._run: its position, stop_event, whether db.close() ran
  commands         \* Telegram commands of the user: waiting, and handled by the bot

authVars == <<token, expires_at, cache, issued>>
healthVars == <<last_success, error_alerted>>
dbVars == <<sightings>>
histVars == <<lastOkAt, streakAlerts, lastCycle, completed, insertCalls>>
scriptVars == <<bf, vb>>
appVars == <<main, commands>>
vars == <<now, token, expires_at, cache, issued, pc, cyc, attempt, wake,
          last_success, error_alerted, events, loc, sightings, lifer_alerts,
          alerts, callLog, lastOkAt, streakAlerts, lastCycle, completed, insertCalls,
          cycleStart, inputs, vision_analyses, bf, vb, main, commands>>


\* ------------------------------------------------------------ AuthManager
NoCache == [present |-> FALSE, token |-> NoToken, expires_at |-> 0]
AuthState == [token |-> token, expires_at |-> expires_at, cache |-> cache, issued |-> issued]

\* (mutant) _login that stores a token although the login failed
Login_stores_on_failure(a, t, loginOK) ==
  LET tok == a.issued + 1
      exp == t + TOKEN_TTL_SECONDS
  IN  IF loginOK
      THEN [raised |-> FALSE, login |-> TRUE, tok |-> tok,
            auth |-> [token |-> tok, expires_at |-> exp,
                      cache |-> [present |-> TRUE, token |-> tok, expires_at |-> exp],
                      issued |-> tok]]
      ELSE [raised |-> TRUE, login |-> TRUE, tok |-> NoToken,
            auth |-> [a EXCEPT !.token = tok, !.expires_at = exp]]

\* AuthManager._login: on success the token is stored, given the TTL and
\* written to the cache file; on failure it raises before storing anything
Login(a, t, loginOK) ==
  IF loginOK
  THEN LET tok == a.issued + 1
           exp == t + TOKEN_TTL_SECONDS
       IN  [raised |-> FALSE, login |-> TRUE, tok |-> tok,
            auth |-> [token |-> tok, expires_at |-> exp,
                      cache |-> [present |-> TRUE, token |-> tok, expires_at |-> exp],
                      issued |-> tok]]
  ELSE [raised |-> TRUE, login |-> TRUE, tok |-> NoToken, auth |-> a]

\* (mutant) get_token that logs in on every call
GetToken_always_login(a, t, loginOK) == Login(a, t, loginOK)

\* (mutant) get_token that returns whatever token is held
GetToken_ignores_expiry(a, t, loginOK) ==
  IF a.token # NoToken
  THEN [raised |-> FALSE, login |-> FALSE, tok |-> a.token, auth |-> a]
  ELSE Login(a, t, loginOK)

\* AuthManager.get_token
GetToken(a, t, loginOK) ==
  IF a.token # NoToken /\ t < a.expires_at
  THEN [raised |-> FALSE, login |-> FALSE, tok |-> a.token, auth |-> a]
  ELSE Login(a, t, loginOK)

\* (mutant) invalidate that keeps the token
Invalidate_keeps_token(a) == a

\* (mutant) invalidate that leaves the cache file on disk
Invalidate_keeps_cache(a) == [a EXCEPT !.token = NoToken, !.expires_at = 0]

\* AuthManager.invalidate
Invalidate(a) ==
  [a EXCEPT !.token = NoToken, !.expires_at = 0, !.cache = NoCache]

\* (mutant) _load_cached_token that loads whatever the file holds
LoadCachedToken_ignores_expiry(c, t) ==
  IF c.present
  THEN [token |-> c.token, expires_at |-> c.expires_at]
  ELSE [token |-> NoToken, expires_at |-> 0]

\* AuthManager._load_cached_token, run by the constructor at time t
LoadCachedToken(c, t) ==
  IF c.present /\ c.expires_at > t
  THEN [token |-> c.token, expires_at |-> c.expires_at]
  ELSE [token |-> NoToken, expires_at |-> 0]

\* str.lower() and the substring test, on the messages of the model
Lower(s) == IF s = "Token expired" THEN "token expired" ELSE s
KeywordIn(kw, s) == <<kw, s>> \in {<<"token", "token expired">>}

Has(b, key) == key \in DOMAIN b

\* (mutant) is_auth_error without the keyword test on msg
is_auth_error_codes_only(b) ==
  /\ Has(b, "result") \/ Has(b, "code")
  /\ (IF Has(b, "result") THEN b.result ELSE b.code) \in AUTH_ERROR_CODES

\* AuthManager.is_auth_error
is_auth_error(b) ==
  LET present == Has(b, "result") \/ Has(b, "code")
      code == IF Has(b, "result") THEN b.result ELSE b.code
      msg == Lower(IF Has(b, "msg") THEN b.msg ELSE "")
  IN  \/ present /\ code \in AUTH_ERROR_CODES
      \/ \E kw \in {"token", "auth", "login"} : KeywordIn(kw, msg)

\* the test of one response in VicoHomeAPI._request: an HTML page or an
\* auth error body
IsAuthFailure(resp) ==
  IF resp.kind = "html" THEN TRUE ELSE is_auth_error(resp.body)

\* body.get("code", body.get("result", -1)) in get_events / get_event
StatusCode(b) ==
  IF Has(b, "code") THEN b.code ELSE IF Has(b, "result") THEN b.result ELSE -1

\* (mutant) get_events that parses the list whatever the status is
ParseEvents_ignores_code(b, w) == w

\* VicoHomeAPI.get_events after _request returned body b while the remote
\* source holds window w
ParseEvents(b, w) == IF StatusCode(b) # 0 THEN <<>> ELSE w

\* which of the three signals a response gives (for the history only)
Signal(resp) ==
  IF resp.kind = "html" THEN "html"
  ELSE LET b == resp.body
           codes == {b[k] : k \in DOMAIN b \cap {"result", "code"}}
       IN  IF codes # {} /\ codes \subseteq AUTH_ERROR_CODES THEN "code"
           ELSE IF codes \cap AUTH_ERROR_CODES # {} THEN "mixed"
           ELSE IF Has(b, "msg") /\ b.msg = "Token expired" THEN "text"
           ELSE "none"

LogEntry(op, tok, out) == [op |-> op, tok |-> tok, out |-> out]
LoginLog(g) ==
  IF g.login THEN <<LogEntry("login", g.tok, IF g.raised THEN "raised" ELSE "ok")>> ELSE <<>>

\* --------------------------------------------------------------- Database
NoConfidence == -1                  \* confidence IS NULL
NoLoc == [trace_id |-> 0, sighting_id |-> 0, species |-> None,
          confidence |-> NoConfidence, is_lifer |-> FALSE, image_path |-> FALSE]

Rows(tbl) == {tbl[i] : i \in 1..Len(tbl)}

\* (mutant) has_trace_id that never finds the row
has_trace_id_never(tbl, trace) == FALSE

\* Database.has_trace_id
has_trace_id(tbl, trace) == \E r \in Rows(tbl) : r.trace_id = trace

\* (mutant) is_lifer that does not look at the table
is_lifer_any_species(tbl, species) == ~(species = None \/ species = "")

\* (mutant) is_lifer with the test on the row inverted
is_lifer_inverted(tbl, species) ==
  IF species = None \/ species = "" THEN FALSE
  ELSE \E r \in Rows(tbl) : r.species = species

\* Database.is_lifer
is_lifer(tbl, species) ==
  IF species = None \/ species = "" THEN FALSE
  ELSE ~ \E r \in Rows(tbl) : r.species = species

\* (mutant) insert_sighting on a table without the UNIQUE constraint
insert_sighting_no_unique(tbl, trace, image) ==
  [raised |-> FALSE, id |-> Len(tbl) + 1,
   tbl |-> Append(tbl, [id |-> Len(tbl) + 1, trace_id |-> trace, species |-> None,
                        confidence |-> NoConfidence, is_lifer |-> FALSE,
                        image_path |-> image, video_path |-> FALSE])]

\* Database.insert_sighting: the UNIQUE constraint on trace_id makes the
\* INSERT raise; otherwise a row with a fresh id and NULL species is added
insert_sighting(tbl, trace, image) ==
  IF \E r \in Rows(tbl) : r.trace_id = trace
  THEN [raised |-> TRUE, id |-> 0, tbl |-> tbl]
  ELSE [raised |-> FALSE, id |-> Len(tbl) + 1,
        tbl |-> Append(tbl, [id |-> Len(tbl) + 1, trace_id |-> trace, species |-> None,
                             confidence |-> NoConfidence, is_lifer |-> FALSE,
                             image_path |-> image, video_path |-> FALSE])]

\* (mutant) update_species that takes the lifer flag away from every other
\* sighting of the species
update_species_recomputes(tbl, sid, species, confidence, lifer) ==
  [i \in 1..Len(tbl) |->
     IF tbl[i].id = sid
     THEN [tbl[i] EXCEPT !.species = species, !.confidence = confidence, !.is_lifer = lifer]
     ELSE IF tbl[i].species = species THEN [tbl[i] EXCEPT !.is_lifer = FALSE]
     ELSE tbl[i]]

\* (mutant) update_species that flags every sighting it writes as a lifer
update_species_always_lifer(tbl, sid, species, confidence, lifer) ==
  [i \in 1..Len(tbl) |->
     IF tbl[i].id = sid
     THEN [tbl[i] EXCEPT !.species = species, !.confidence = confidence, !.is_lifer = TRUE]
     ELSE tbl[i]]

\* (mutant) update_species that stores nothing
update_species_noop(tbl, sid, species, confidence, lifer) == tbl

\* Database.update_species
update_species(tbl, sid, species, confidence, lifer) ==
  [i \in 1..Len(tbl) |->
     IF tbl[i].id = sid
     THEN [tbl[i] EXCEPT !.species = species, !.confidence = confidence, !.is_lifer = lifer]
     ELSE tbl[i]]

\* Database.update_media_paths(sighting_id, video_path=...)
update_media_paths(tbl, sid, video) ==
  [i \in 1..Len(tbl) |->
     IF tbl[i].id = sid /\ video THEN [tbl[i] EXCEPT !.video_path = TRUE] ELSE tbl[i]]

\* --------------------------------------------------- classifier and vendor
Labels == {"high", "medium", "low", "certain"}
NoVision == [ok |-> FALSE, is_bird |-> FALSE, species |-> None, confidence |-> None]
VisionResults ==
  {NoVision} \cup [ok : {TRUE}, is_bird : BOOLEAN, species : Species \cup {None, ""},
                   confidence : Labels \cup {None}]

\* (mutant) the map with another default
ConfidenceOf_default_zero(label) ==
  CASE label = "high" -> 90
    [] label = "medium" -> 70
    [] label = "low" -> 40
    [] OTHER -> 0

\* confidence_map.get(vision.confidence or "", 0.5), in hundredths
ConfidenceOf(label) ==
  CASE label = "high" -> 90
    [] label = "medium" -> 70
    [] label = "low" -> 40
    [] OTHER -> 50

\* MotionEvent.bird_name / bird_confidence (hundredths)
VendorGuesses ==
  {[bird_name |-> "", bird_confidence |-> 0]} \cup
  [bird_name : Species, bird_confidence : {85}]

NoGuess == [bird_name |-> "", bird_confidence |-> 0]

\* analyze_image returned None after recording an audit row: the reply was
\* not JSON, or the call raised
FailedVision == [ok |-> FALSE, is_bird |-> FALSE, species |-> None, confidence |-> "error"]

\* (mutant) an audit row for parsed results only
Audited_only_success(vision) == vision.ok

\* analyze_image wrote a row of vision_analyses (not without an API key or
\* without the image file)
Audited(vision) == vision.ok \/ vision = FailedVision

\* the row analyze_image passes to insert_vision_analysis: the result, or in
\* the two except blocks a row of nulls carrying the error
AuditRow(sid, vision) ==
  [sighting_id |-> sid,
   species |-> IF vision.ok THEN vision.species ELSE None,
   error |-> ~vision.ok]

\* Database.insert_vision_analysis: a plain INSERT, the id is the next one
insert_vision_analysis(tbl, row) == Append(tbl, row)

\* what analyze_image does to the vision_analyses table
RecordAnalysis(tbl, sid, vision) ==
  IF Audited(vision) THEN insert_vision_analysis(tbl, AuditRow(sid, vision)) ELSE tbl

\* the ids of the rows of one sighting
AnalysesOf(tbl, sid) == {i \in 1..Len(tbl) : tbl[i].sighting_id = sid}

\* Database.get_vision_for_sighting returns None: the sighting has no row
NoAnalysis == [sighting_id |-> 0, species |-> None, error |-> FALSE]

\* Database.get_vision_for_sighting: ORDER BY id DESC LIMIT 1
get_vision_for_sighting(tbl, sid) ==
  IF AnalysesOf(tbl, sid) = {} THEN NoAnalysis
  ELSE tbl[CHOOSE i \in AnalysesOf(tbl, sid) : \A j \in AnalysesOf(tbl, sid) : j <= i]

\* (mutant) the test without is_bird
Accepted_any_animal(vision) == vision.ok /\ vision.species \notin {None, ""}

\* if vision and vision.is_bird and vision.species
Accepted(vision) == vision.ok /\ vision.is_bird /\ vision.species \notin {None, ""}

\* no event of the current iteration has reached insert_sighting
NoInputs == [sid |-> 0, vision |-> NoVision, vendor |-> NoGuess, done |-> FALSE]

\* ------------------------------------------------- BirdAnalyzer (BirdNET)
BIRDNET_CONFIDENCE_THRESHOLD == 50  \* 0.5, in hundredths
NoDetection == [species |-> None, confidence |-> NoConfidence]

\* BirdAnalyzer.analyze on the predictions of one audio file: the first
\* prediction of the highest confidence among those at or above the threshold
RECURSIVE Best(_, _)
Best(predictions, best) ==
  IF predictions = <<>> THEN best
  ELSE LET row == Head(predictions)
       IN  IF row.confidence < BIRDNET_CONFIDENCE_THRESHOLD
           THEN Best(Tail(predictions), best)
           ELSE IF best = NoDetection \/ row.confidence > best.confidence
           THEN Best(Tail(predictions), row)
           ELSE Best(Tail(predictions), best)

analyze(predictions) == Best(predictions, NoDetection)

\* what BirdNET predicts for the audio track of each event's video
AudioOf(trace) ==
  IF trace = 1
  THEN <<[species |-> "Cardinal", confidence |-> 30],
         [species |-> "Blue Jay", confidence |-> 60]>>
  ELSE <<[species |-> "Cardinal", confidence |-> 30]>>

\* ------------------------------------------------------ the two scripts
BfOff == [pc |-> "off", events |-> <<>>, sid |-> 0]
VbOff == [pc |-> "off", queue |-> <<>>, sid |-> 0, vision |-> NoVision]

\* ------------------------------------------------------------------- Init
\* the cache file found by the AuthManager constructor: absent, holding an
\* expired token, or holding a token that expires during the run
InitCaches ==
  {NoCache} \cup
  {[present |-> TRUE, token |-> 1, expires_at |-> e] : e \in {0, TickStep + TickStep \div 2}}

Init ==
  /\ now = 0
  /\ cache \in InitCaches
  /\ issued = IF cache.present THEN 1 ELSE 0
  /\ token = LoadCachedToken(cache, 0).token
  /\ expires_at = LoadCachedToken(cache, 0).expires_at
  /\ pc = "init" /\ cyc = "boot" /\ attempt = 0 /\ wake = 0
  /\ last_success = 0 /\ error_alerted = FALSE
  /\ events = <<>> /\ loc = NoLoc
  /\ sightings = <<>>
  /\ lifer_alerts = <<>> /\ alerts = <<>>
  /\ callLog = <<>> /\ lastOkAt = 0 /\ streakAlerts = 0
  /\ lastCycle = [kind |-> "none", elapsed |-> 0]
  /\ completed = {}
  /\ insertCalls = [t \in TraceIds |-> 0]
  /\ cycleStart = 0
  /\ inputs = NoInputs
  /\ vision_analyses = <<>>
  /\ bf = BfOff /\ vb = VbOff
  /\ main = [pc |-> "waiting", stop |-> FALSE, closed |-> FALSE]
  /\ commands = [pending |-> 0, handled |-> 0]

SetAuth(a) ==
  /\ token' = a.token /\ expires_at' = a.expires_at
  /\ cache' = a.cache /\ issued' = a.issued

\* ----------------------------------------------------------- Pipeline.run
\* (mutant) the alert test without the suppression flag
ShouldAlert_ignores_flag(elapsed, alerted) == elapsed > ERROR_ALERT_THRESHOLD

\* the test that decides a health alert in the except block of run
ShouldAlert(elapsed, alerted) == elapsed > ERROR_ALERT_THRESHOLD /\ ~alerted

\* an exception leaves _poll_cycle: the bootstrap call is outside the try,
\* so it ends run(); inside the loop the except block runs up to the await
\* of send_error_alert, or to the sleep of the next iteration
Raise ==
  /\ events' = <<>> /\ loc' = NoLoc /\ attempt' = 0
  /\ IF cyc = "boot"
     THEN /\ pc' = "dead"
          /\ lastCycle' = [kind |-> "died", elapsed |-> 0]
          /\ UNCHANGED <<wake, alerts, streakAlerts>>
     ELSE LET elapsed == now - last_success
          IN  /\ lastCycle' = [kind |-> "fail", elapsed |-> elapsed]
              /\ IF ShouldAlert(elapsed, error_alerted)
                 THEN /\ pc' = "alert"
                      /\ alerts' = Append(alerts, [elapsed |-> elapsed,
                                                   gap |-> now - lastOkAt,
                                                   delivered |-> FALSE])
                      /\ streakAlerts' = streakAlerts + 1
                      /\ UNCHANGED wake
                 ELSE /\ pc' = "sleep"
                      /\ wake' = now + POLL_INTERVAL_SECONDS
                      /\ UNCHANGED <<alerts, streakAlerts>>

\* run() is started: the bootstrap _poll_cycle begins with get_events
RunStart ==
  /\ pc = "init"
  /\ pc' = "request" /\ attempt' = 0 /\ callLog' = <<>>
  /\ cycleStart' = now
  /\ UNCHANGED <<now, authVars, cyc, wake, healthVars, events, loc, sightings,
                 lifer_alerts, alerts, histVars>>
  /\ UNCHANGED <<inputs, vision_analyses, scriptVars, appVars>>

\* asyncio.sleep(POLL_INTERVAL_SECONDS) returns; the next _poll_cycle begins
Wake ==
  /\ pc = "sleep" /\ now >= wake
  /\ pc' = "request" /\ cyc' = "loop" /\ attempt' = 0 /\ callLog' = <<>>
  /\ wake' = 0
  /\ cycleStart' = now
  /\ UNCHANGED <<now, authVars, healthVars, events, loc, sightings,
                 lifer_alerts, alerts, histVars>>
  /\ UNCHANGED <<inputs, vision_analyses, scriptVars, appVars>>

\* time passes while the task sleeps, waits for ffmpeg (download_video has
\* no timeout) or for a Telegram send; the clock stops after `ticks` ticks
Tick(ticks) ==
  /\ pc \in {"sleep", "video", "lifer", "alert"}
  /\ now + TickStep <= ticks * TickStep
  /\ now' = now + TickStep
  /\ UNCHANGED <<authVars, pc, cyc, attempt, wake, healthVars, events, loc, sightings,
                 lifer_alerts, alerts, callLog, histVars>>
  /\ UNCHANGED <<cycleStart, inputs, vision_analyses, scriptVars, appVars>>

\* (mutant) send_error_alert lets the failure of the send out: run() ends
HealthAlertDone_escalates(delivered) ==
  /\ pc = "alert"
  /\ alerts' = [alerts EXCEPT ![Len(alerts)].delivered = delivered]
  /\ IF delivered
     THEN error_alerted' = TRUE /\ pc' = "sleep" /\ wake' = now + POLL_INTERVAL_SECONDS
     ELSE pc' = "dead" /\ UNCHANGED <<error_alerted, wake>>
  /\ UNCHANGED <<now, authVars, cyc, attempt, last_success, events, loc, sightings,
                 lifer_alerts, callLog, histVars>>
  /\ UNCHANGED <<cycleStart, inputs, vision_analyses, scriptVars, appVars>>

\* send_error_alert returns (the send succeeded, or its failure was logged)
\* and the except block sets the suppression flag
HealthAlertDone(delivered) ==
  /\ pc = "alert"
  /\ alerts' = [alerts EXCEPT ![Len(alerts)].delivered = delivered]
  /\ error_alerted' = TRUE
  /\ pc' = "sleep" /\ wake' = now + POLL_INTERVAL_SECONDS
  /\ UNCHANGED <<now, authVars, cyc, attempt, last_success, events, loc, sightings,
                 lifer_alerts, callLog, histVars>>
  /\ UNCHANGED <<cycleStart, inputs, vision_analyses, scriptVars, appVars>>

\* --------------------------------------------------- VicoHomeAPI._request
Attempts == 2                       \* for attempt in range(2)
FirstAttempt_always(a) == TRUE      \* (mutant) every attempt may retry
FirstAttempt(a) == a = 0            \* if attempt == 0

\* get_token of one attempt; the login endpoint issues at most MaxTok tokens
TokenFor(loginOK) == GetToken(AuthState, now, loginOK)
CanIssue(g) == g.login /\ ~g.raised => issued < MaxTok

\* get_token raises: the login was rejected or could not be reached
ApiLoginFails ==
  /\ pc = "request"
  /\ LET g == TokenFor(FALSE)
     IN  /\ g.raised
         /\ callLog' = callLog \o LoginLog(g)
         /\ SetAuth(g.auth)
  /\ Raise
  /\ UNCHANGED <<now, cyc, healthVars, sightings, lifer_alerts, lastOkAt, completed,
                 insertCalls>>
  /\ UNCHANGED <<cycleStart, inputs, vision_analyses, scriptVars, appVars>>

\* requests.post or raise_for_status raises: network failure, timeout, non-2xx
ApiTransportError ==
  /\ pc = "request"
  /\ LET g == TokenFor(TRUE)
     IN  /\ CanIssue(g)
         /\ callLog' = callLog \o LoginLog(g) \o <<LogEntry("post", g.tok, "transport")>>
         /\ SetAuth(g.auth)
  /\ Raise
  /\ UNCHANGED <<now, cyc, healthVars, sightings, lifer_alerts, lastOkAt, completed,
                 insertCalls>>
  /\ UNCHANGED <<cycleStart, inputs, vision_analyses, scriptVars, appVars>>

\* the response is an HTML page or an auth error body: on the first attempt
\* invalidate and continue, otherwise raise RuntimeError
ApiAuthFailure(resp) ==
  /\ pc = "request"
  /\ IsAuthFailure(resp)
  /\ LET g == TokenFor(TRUE)
         posted == callLog \o LoginLog(g) \o <<LogEntry("post", g.tok, Signal(resp))>>
     IN  /\ CanIssue(g)
         /\ IF FirstAttempt(attempt)
            THEN /\ SetAuth(Invalidate(g.auth))
                 /\ callLog' = Append(posted, LogEntry("invalidate", g.tok, "ok"))
                 /\ IF attempt + 1 < Attempts
                    THEN /\ attempt' = attempt + 1
                         /\ UNCHANGED <<pc, wake, events, loc, alerts, streakAlerts, lastCycle>>
                    ELSE Raise
            ELSE /\ SetAuth(g.auth)
                 /\ callLog' = Append(posted, LogEntry("raise", g.tok, "RuntimeError"))
                 /\ Raise
  /\ UNCHANGED <<now, cyc, healthVars, sightings, lifer_alerts, lastOkAt, completed,
                 insertCalls>>
  /\ UNCHANGED <<cycleStart, inputs, vision_analyses, scriptVars, appVars>>

\* the response body is returned by _request; get_events parses it while
\* the remote source holds window w, and _poll_cycle starts its for loop
ApiReturns(resp, w) ==
  /\ pc = "request"
  /\ ~IsAuthFailure(resp)
  /\ LET g == TokenFor(TRUE)
     IN  /\ CanIssue(g)
         /\ callLog' = callLog \o LoginLog(g) \o
                       <<LogEntry("post", g.tok, Signal(resp)),
                         LogEntry("return", g.tok, "ok")>>
         /\ SetAuth(g.auth)
  /\ events' = ParseEvents(resp.body, w)
  /\ pc' = "events" /\ attempt' = 0
  /\ UNCHANGED <<now, cyc, wake, healthVars, loc, sightings, lifer_alerts, alerts, histVars>>
  /\ UNCHANGED <<cycleStart, inputs, vision_analyses, scriptVars, appVars>>

\* ---------------------------------------------------- Pipeline._poll_cycle
\* the for loop is exhausted and _poll_cycle returns: the bootstrap call goes
\* on to the loop's sleep; inside the loop the health state is reset first
CycleReturns ==
  /\ pc = "events" /\ events = <<>>
  /\ IF cyc = "boot"
     THEN UNCHANGED <<last_success, error_alerted, streakAlerts>>
     ELSE last_success' = now /\ error_alerted' = FALSE /\ streakAlerts' = 0
  /\ pc' = "sleep" /\ wake' = now + POLL_INTERVAL_SECONDS
  /\ lastOkAt' = now /\ lastCycle' = [kind |-> "ok", elapsed |-> 0]
  /\ UNCHANGED <<now, authVars, cyc, attempt, events, loc, sightings, lifer_alerts,
                 alerts, callLog, completed, insertCalls>>
  /\ inputs' = NoInputs
  /\ UNCHANGED <<cycleStart, vision_analyses, scriptVars, appVars>>

\* if self.db.has_trace_id(event.trace_id): continue
SkipKnown ==
  /\ pc = "events" /\ events # <<>>
  /\ has_trace_id(sightings, Head(events))
  /\ events' = Tail(events)
  /\ UNCHANGED <<now, authVars, pc, cyc, attempt, wake, healthVars, loc, sightings,
                 lifer_alerts, alerts, callLog, histVars>>
  /\ inputs' = NoInputs
  /\ UNCHANGED <<cycleStart, vision_analyses, scriptVars, appVars>>

\* -------------------------------------------------- Pipeline._process_event
\* download_image: no URL, the media directory cannot be made (raises), the
\* image is saved, or the download fails (logged, None)
ImageOutcomes == {"nourl", "oserror", "saved", "failed"}

\* steps 1 to 3 for a new event, up to the await of download_video
ProcessEventBegin(img, vis) ==
  /\ pc = "events" /\ events # <<>>
  /\ ~has_trace_id(sightings, Head(events))
  /\ LET image == img = "saved"
         ins == insert_sighting(sightings, Head(events), image)
         vision == IF image THEN vis ELSE NoVision
         accepted == Accepted(vision)
     IN  IF img = "oserror"
         THEN /\ Raise
              /\ inputs' = NoInputs
              /\ UNCHANGED <<sightings, insertCalls, vision_analyses>>
         ELSE IF ins.raised
         THEN /\ Raise
              /\ insertCalls' = [insertCalls EXCEPT ![Head(events)] = @ + 1]
              /\ inputs' = NoInputs
              /\ UNCHANGED <<sightings, vision_analyses>>
         ELSE /\ sightings' = ins.tbl
              /\ insertCalls' = [insertCalls EXCEPT ![Head(events)] = @ + 1]
              /\ loc' = [trace_id |-> Head(events), sighting_id |-> ins.id,
                         species |-> IF accepted THEN vision.species ELSE None,
                         confidence |-> IF accepted THEN ConfidenceOf(vision.confidence)
                                        ELSE NoConfidence,
                         is_lifer |-> IF accepted THEN is_lifer(ins.tbl, vision.species)
                                      ELSE FALSE,
                         image_path |-> image]
              /\ pc' = "video"
              /\ inputs' = [sid |-> ins.id, vision |-> vision, vendor |-> NoGuess,
                            done |-> FALSE]
              /\ vision_analyses' = RecordAnalysis(vision_analyses, ins.id, vision)
              /\ UNCHANGED <<attempt, wake, events, alerts, streakAlerts, lastCycle>>
  /\ UNCHANGED <<now, authVars, cyc, healthVars, lifer_alerts, callLog, lastOkAt, completed>>
  /\ UNCHANGED <<cycleStart, scriptVars, appVars>>

\* steps 4 to 7: download_video returned; the media path, the vendor
\* fallback, update_species, and the call of send_lifer_alert for a lifer.
\* dbError: the UPDATE of update_species raises
NotifyLifer_always(lifer) == TRUE   \* (mutant) notify for every event
NotifyLifer(lifer) == lifer         \* if is_lifer:

ProcessEventVideo(video, vendor, dbError) ==
  /\ pc = "video"
  /\ LET withVideo == update_media_paths(sightings, loc.sighting_id, video)
         fallback == loc.species = None /\ vendor.bird_name # ""
         species == IF fallback THEN vendor.bird_name ELSE loc.species
         confidence == IF fallback THEN vendor.bird_confidence ELSE loc.confidence
         lifer == IF fallback THEN is_lifer(withVideo, species) ELSE loc.is_lifer
     IN  IF dbError
         THEN /\ sightings' = withVideo
              /\ Raise
              /\ inputs' = NoInputs
              /\ UNCHANGED <<lifer_alerts, completed>>
         ELSE /\ sightings' = update_species(withVideo, loc.sighting_id, species,
                                             confidence, lifer)
              /\ IF NotifyLifer(lifer)
                 THEN /\ lifer_alerts' = Append(lifer_alerts,
                                                [sighting_id |-> loc.sighting_id,
                                                 species |-> species])
                      /\ pc' = "lifer"
                      /\ UNCHANGED <<events, loc, completed>>
                 ELSE /\ pc' = "events"
                      /\ events' = Tail(events) /\ loc' = NoLoc
                      /\ completed' = completed \cup {loc.sighting_id}
                      /\ UNCHANGED lifer_alerts
              /\ inputs' = [inputs EXCEPT !.vendor = vendor, !.done = TRUE]
              /\ UNCHANGED <<attempt, wake, alerts, streakAlerts, lastCycle>>
  /\ UNCHANGED <<now, authVars, cyc, healthVars, callLog, lastOkAt, insertCalls>>
  /\ UNCHANGED <<cycleStart, vision_analyses, scriptVars, appVars>>

\* send_lifer_alert returns (sent, or its failure logged): the event is done
\* (mutant) send_lifer_alert returns and the for loop starts over on the same
\* list
LiferAlertDone_same_list ==
  /\ pc = "lifer"
  /\ pc' = "events"
  /\ loc' = NoLoc
  /\ completed' = completed \cup {loc.sighting_id}
  /\ UNCHANGED <<now, authVars, cyc, attempt, wake, healthVars, sightings, lifer_alerts,
                 alerts, callLog, lastOkAt, streakAlerts, lastCycle, insertCalls, events>>
  /\ UNCHANGED <<cycleStart, inputs, vision_analyses, scriptVars, appVars>>

LiferAlertDone ==
  /\ pc = "lifer"
  /\ pc' = "events"
  /\ events' = Tail(events) /\ loc' = NoLoc
  /\ completed' = completed \cup {loc.sighting_id}
  /\ UNCHANGED <<now, authVars, cyc, attempt, wake, healthVars, sightings, lifer_alerts,
                 alerts, callLog, lastOkAt, streakAlerts, lastCycle, insertCalls>>
  /\ UNCHANGED <<cycleStart, inputs, vision_analyses, scriptVars, appVars>>

\* ------------------------------------------------------------------- Next
\* a JSON success body
OkResponse == [kind |-> "json", body |-> ("code" :> 0) @@ ("msg" :> "success")]

\* Spec: polling and authentication against a remote source whose lookback
\* window holds no event; the API and the login endpoint answer anything
Next ==
  \/ RunStart
  \/ Wake
  \/ Tick(ApiTicks)
  \/ ApiLoginFails
  \/ ApiTransportError
  \/ \E resp \in Responses : ApiAuthFailure(resp)
  \/ \E resp \in Responses : ApiReturns(resp, <<>>)
  \/ CycleReturns

Spec == Init /\ [][Next]_vars

\* SpecHealth: the health tracker over a long run. No token is cached at the
\* start; a request is answered with a success body or fails in transport;
\* the remote source holds at most one event, without media or vendor guess
InitHealth == Init /\ cache = NoCache

NextHealth ==
  \/ RunStart
  \/ Wake
  \/ Tick(HealthTicks)
  \/ ApiTransportError
  \/ \E w \in {<<>>, <<1>>} : ApiReturns(OkResponse, w)
  \/ CycleReturns
  \/ SkipKnown
  \/ ProcessEventBegin("nourl", NoVision)
  \/ \E dbError \in BOOLEAN : ProcessEventVideo(FALSE, NoGuess, dbError)
  \/ \E delivered \in BOOLEAN : HealthAlertDone(delivered)

SpecHealth == InitHealth /\ [][NextHealth]_vars

\* SpecIngest: the processing of events. No token is cached at the start and
\* every request is answered with a success body; the keyshot is saved or the
\* media directory cannot be made, the image classifier answers, and the
\* vendor names one species or none
IngestImages == {"oserror", "saved"}
IngestVision ==
  [ok : {TRUE}, is_bird : {TRUE}, species : Species \cup {None}, confidence : {"high"}]
  \cup [ok : {TRUE}, is_bird : {FALSE}, species : {None}, confidence : {"high"}]
IngestVendor == {NoGuess, [bird_name |-> "Blue Jay", bird_confidence |-> 85]}

NextIngest ==
  \/ RunStart
  \/ Wake
  \/ Tick(IngestTicks)
  \/ \E w \in Windows : ApiReturns(OkResponse, w)
  \/ CycleReturns
  \/ SkipKnown
  \/ \E img \in IngestImages, vis \in IngestVision : ProcessEventBegin(img, vis)
  \/ \E video \in BOOLEAN, vendor \in IngestVendor, dbError \in BOOLEAN :
       ProcessEventVideo(video, vendor, dbError)
  \/ LiferAlertDone

SpecIngest == InitHealth /\ [][NextIngest]_vars

\* ---------------------------------------------------------------- claims
RowsOf(trace) == {i \in 1..Len(sightings) : sightings[i].trace_id = trace}

\* C1: however often an event is returned (in several windows, or twice in
\* one window), insert_sighting is called at most once for its trace
\* identifier and the table holds exactly the one row that call inserted; an
\* event being enriched has its row.
C1_OneSightingPerTrace ==
  /\ \A t \in TraceIds :
       /\ insertCalls[t] <= 1
       /\ Cardinality(RowsOf(t)) = insertCalls[t]
  /\ pc \in {"video", "lifer"} => Cardinality(RowsOf(loc.trace_id)) = 1

\* a later cycle returns, twice in one window, an event that is already held
C1_Witness ==
  /\ cyc = "loop" /\ pc = "events" /\ Len(events) = 2
  /\ events[1] = events[2]
  /\ Cardinality(RowsOf(events[1])) = 1

\* C2: a persisted sighting with a species has is_lifer = TRUE exactly when
\* no sighting persisted before it holds the same species value, whatever
\* the confidences.
C2_LiferIffFirstOfSpecies ==
  \A i \in 1..Len(sightings) :
    sightings[i].species # None =>
      (sightings[i].is_lifer <=>
         ~ \E j \in 1..(i - 1) : sightings[j].species = sightings[i].species)

\* two sightings of one species with different confidences: lifer, then not
C2_Witness ==
  /\ Len(sightings) >= 2
  /\ sightings[1].species \in Species
  /\ sightings[2].species = sightings[1].species
  /\ sightings[1].confidence # sightings[2].confidence
  /\ sightings[1].is_lifer /\ ~sightings[2].is_lifer

AlertsFor(sid) == {i \in 1..Len(lifer_alerts) : lifer_alerts[i].sighting_id = sid}

\* C3: for an event processed to completion send_lifer_alert was called once
\* if the persisted is_lifer is TRUE and not at all if it is FALSE; every
\* call is for a sighting persisted as a lifer, with its species.
C3_LiferAlertIffLifer ==
  /\ \A sid \in completed :
       Cardinality(AlertsFor(sid)) = IF sightings[sid].is_lifer THEN 1 ELSE 0
  /\ \A i \in 1..Len(lifer_alerts) :
       LET row == sightings[lifer_alerts[i].sighting_id]
       IN  /\ row.is_lifer
           /\ row.species = lifer_alerts[i].species
           /\ Cardinality(AlertsFor(row.id)) = 1

\* a completed lifer with its one alert and a completed non-lifer with none
C3_Witness ==
  \E a, b \in completed :
    /\ sightings[a].is_lifer /\ Cardinality(AlertsFor(a)) = 1
    /\ ~sightings[b].is_lifer /\ sightings[b].species \in Species
    /\ AlertsFor(b) = {}

\* ------------------------------------------- one _request call, as a history
Posts(log) == SelectSeq(log, LAMBDA e : e.op = "post")
Count(log, op) == Len(SelectSeq(log, LAMBDA e : e.op = op))
LastOf(log) == log[Len(log)]
CallEnded == pc # "request"

\* the responses that are one of the three authentication signals and nothing
\* else: an HTML page, status fields that are all auth error codes, or a
\* message with a keyword beside status fields that are not auth error codes
AuthSignals == {"html", "code", "text"}

\* C4: when the first and the second response of one _request call both
\* signal an authentication failure (any combination of HTML page and auth
\* error body), the call has ended by raising RuntimeError, the cycle is
\* lost, exactly two requests were sent and invalidate ran exactly once; no
\* call ever sends a third request.
C4_TwoAuthFailuresFatal ==
  LET posts == Posts(callLog)
  IN  /\ Len(posts) <= 2
      /\ (Len(posts) = 2 /\ posts[1].out \in AuthSignals /\ posts[2].out \in AuthSignals) =>
           /\ CallEnded
           /\ LastOf(callLog) = LogEntry("raise", posts[2].tok, "RuntimeError")
           /\ lastCycle.kind \in {"fail", "died"}
           /\ Count(callLog, "invalidate") = 1
           /\ Count(callLog, "return") = 0

C4_Witness ==
  LET posts == Posts(callLog)
  IN  /\ Len(posts) = 2
      /\ posts[1].out = "html" /\ posts[2].out = "code"
      /\ LastOf(callLog).op = "raise"
      /\ Count(callLog, "invalidate") = 1

\* the held credential was refused by the server or had run out locally
\* when the call began
CredentialExpired ==
  /\ callLog # <<>>
  /\ \/ callLog[1].op = "login"
     \/ callLog[1].op = "post" /\ callLog[1].out \in AuthSignals

\* every login of the call succeeded, no request failed in transport, and
\* the server accepted every token it issued during the call
ReloginSucceeds ==
  \A i \in 1..Len(callLog) :
    /\ callLog[i].out \notin {"raised", "transport"}
    /\ (callLog[i].op = "post" /\ \E j \in 1..(i - 1) :
          callLog[j].op = "login" /\ callLog[j].tok = callLog[i].tok)
         => callLog[i].out = "none"

\* C5: a call that began with an expired credential and whose re-login
\* succeeded has returned the response body, exactly once, after at most one
\* login.
C5_ExpiredCredentialOneLogin ==
  (CallEnded /\ CredentialExpired /\ ReloginSucceeds) =>
    /\ LastOf(callLog).op = "return"
    /\ Count(callLog, "return") = 1
    /\ Count(callLog, "login") <= 1
    /\ Len(Posts(callLog)) <= 2

C5_Witness ==
  /\ CallEnded /\ ReloginSucceeds
  /\ Len(callLog) = 5
  /\ callLog[1].op = "post" /\ callLog[1].out \in AuthSignals
  /\ callLog[2].op = "invalidate"
  /\ callLog[3] = LogEntry("login", callLog[1].tok + 1, "ok")
  /\ callLog[4] = LogEntry("post", callLog[3].tok, "none")
  /\ callLog[5].op = "return"

\* the position in the history of the request of the first attempt
FirstPost == IF callLog # <<>> /\ callLog[1].op = "login" THEN 2 ELSE 1

C7_TransportErrorCountsAsFailedCycle ==
  (callLog # <<>> /\ LastOf(callLog).out = "transport") =>
    /\ CallEnded
    /\ token = LastOf(callLog).tok
    /\ Len(Posts(callLog)) <= 2
    /\ lastCycle.kind = "fail"
    /\ pc \in {"sleep", "alert"}

\* ------------------------------------------------------- health alerting
\* C8: since the last successful cycle of the loop at most one health alert
\* has been sent, however many cycles failed; after a successful cycle the
\* count is zero and the suppression flag is clear; and every failing cycle
\* that finds the threshold exceeded leaves its streak with its one alert,
\* so a streak after a success gets a new alert.
C8_OneAlertPerStreak ==
  /\ streakAlerts <= 1
  /\ lastCycle.kind = "ok" => streakAlerts = 0 /\ ~error_alerted
  /\ (lastCycle.kind = "fail" /\ lastCycle.elapsed > ERROR_ALERT_THRESHOLD) =>
       streakAlerts = 1

C8_Witness ==
  /\ Len(alerts) = 2 /\ streakAlerts = 1
  /\ pc = "sleep" /\ error_alerted
  /\ lastCycle.kind = "fail"
  /\ lastCycle.elapsed > alerts[2].elapsed

\* C9: every health alert was sent by a failing cycle, at a moment when more
\* than the alert threshold had passed since the last poll cycle that
\* succeeded.
C9_AlertOnlyAfterThreshold ==
  /\ \A i \in 1..Len(alerts) : alerts[i].gap > ERROR_ALERT_THRESHOLD
  /\ pc = "alert" => lastCycle.kind = "fail"

\* C10: the suppression flag is set only for an outage whose health alert
\* was delivered to the operator.
C10_FlagOnlyAfterDelivery ==
  error_alerted => alerts # <<>> /\ LastOf(alerts).delivered

\* ------------------------------------------------------ failing cycles
\* C11: after a poll cycle that raised, the bootstrap cycle included, run()
\* is still going: it waits for the health alert to be sent, or sleeps at
\* most the poll interval before the next cycle, or is in a later cycle.
C11_FailedCycleNeverStopsLoop ==
  lastCycle.kind \in {"fail", "died"} =>
    /\ pc \in {"alert", "sleep", "request", "events", "video", "lifer"}
    /\ pc = "sleep" => wake <= now + POLL_INTERVAL_SECONDS

\* a step in which _process_event raises: it is called for a new event and
\* does not reach download_video, or it leaves download_video without
\* returning and without calling send_lifer_alert
EventFails ==
  \/ /\ pc = "events" /\ events # <<>>
     /\ ~has_trace_id(sightings, Head(events))
     /\ pc' # "video"
  \/ /\ pc = "video"
     /\ pc' \notin {"video", "lifer"}
     /\ loc.sighting_id \notin completed'

\* C12: when _process_event raises for one event, the for loop of
\* _poll_cycle goes on with the events after it, and the outcome of the
\* cycle is not (yet) a failure for the health tracker.
C12_EventFailureIsolated ==
  [][EventFails =>
       /\ pc' = "events"
       /\ events' = Tail(events)
       /\ lastCycle' = lastCycle
       /\ UNCHANGED <<alerts, streakAlerts>>]_vars

\* ------------------------------------------------- the lookback window
LOOKBACK_SECONDS == 60 * 60

\* (mutant) a window that starts at the time of the call
WindowStart_from_now(t) == t

\* start = now - 3600 in _poll_cycle
WindowStart(t) == t - LOOKBACK_SECONDS

\* the remote source records the event with trace identifier i at this time
EventTime(trace) == (trace - 1) * TickStep

\* the events the list endpoint returns for a call made at time t: those
\* recorded between startTimestamp and endTimestamp, oldest first
WindowAt(t) ==
  SelectSeq([i \in 1..MaxTrace |-> i],
            LAMBDA trace : EventTime(trace) >= WindowStart(t) /\ EventTime(trace) <= t)

\* in SpecLookback the clock is observed at a coarser grain
LongStep == LOOKBACK_SECONDS \div 2

\* time passes while the task sleeps or waits (as Tick, at the coarser grain)
LongTick(ticks) ==
  /\ pc \in {"sleep", "video", "lifer", "alert"}
  /\ now + LongStep <= ticks * LongStep
  /\ now' = now + LongStep
  /\ UNCHANGED <<authVars, pc, cyc, attempt, wake, healthVars, events, loc, sightings,
                 lifer_alerts, alerts, callLog, histVars>>
  /\ UNCHANGED <<cycleStart, inputs, vision_analyses, scriptVars, appVars>>

\* SpecLookback: outages of any length. No token is cached at the start; a
\* request fails in transport or returns the events of the lookback window
\* (events without media or vendor guess); the health alert is delivered
NextLookback ==
  \/ RunStart
  \/ Wake
  \/ LongTick(LookbackTicks)
  \/ ApiTransportError
  \/ ApiReturns(OkResponse, WindowAt(cycleStart))
  \/ CycleReturns
  \/ SkipKnown
  \/ ProcessEventBegin("nourl", NoVision)
  \/ ProcessEventVideo(FALSE, NoGuess, FALSE)
  \/ HealthAlertDone(TRUE)

SpecLookback == InitHealth /\ [][NextLookback]_vars

\* a cycle has just returned normally
CycleSucceeded == pc = "sleep" /\ lastCycle.kind = "ok"

\* C13 (as claimed): when a cycle has succeeded, every event the remote
\* source held at the start of that cycle is persisted as a sighting,
\* whatever cycles failed or were missed before.
C13_NoEventDropped ==
  CycleSucceeded =>
    \A trace \in TraceIds :
      EventTime(trace) <= cycleStart => has_trace_id(sightings, trace)

\* C13 (amended): when a cycle has succeeded, every event the remote source
\* recorded in the 3600 s before the start of that cycle is persisted as a
\* sighting, whatever cycles failed or were missed before.
C13_NoEventDroppedWithinLookback ==
  CycleSucceeded =>
    \A trace \in TraceIds :
      (EventTime(trace) <= cycleStart /\ EventTime(trace) >= cycleStart - LOOKBACK_SECONDS)
        => has_trace_id(sightings, trace)

C13_Witness ==
  /\ CycleSucceeded /\ cyc = "loop"
  /\ cycleStart = 2 * LongStep /\ lastOkAt = cycleStart
  /\ alerts # <<>>
  /\ has_trace_id(sightings, 2)

\* ------------------------------------------ vision_backfill.py, run()
\* everything of the pipeline task but the two tables
pipelineVars == <<now, authVars, pc, cyc, attempt, wake, healthVars, events, loc,
                  lifer_alerts, alerts, callLog, histVars, cycleStart, inputs, appVars>>

\* if vision and vision.is_bird and vision.species (vision_backfill.py)
AcceptedBackfill(vision) == vision.ok /\ vision.is_bird /\ vision.species \notin {None, ""}

\* confidence_map.get(vision.confidence or "", 0.5) (vision_backfill.py)
ConfidenceOfBackfill(label) ==
  CASE label = "high" -> 90
    [] label = "medium" -> 70
    [] label = "low" -> 40
    [] OTHER -> 50

\* the script starts: with --rerun it clears the audit table and the species
\* of every sighting; then it selects the sightings that have an image and
\* no audit row
VisionBackfillStart(rerun) ==
  /\ vb.pc = "off"
  /\ LET cleared == IF rerun
                    THEN [i \in 1..Len(sightings) |->
                            [sightings[i] EXCEPT !.species = None,
                                                 !.confidence = NoConfidence,
                                                 !.is_lifer = FALSE]]
                    ELSE sightings
         audits == IF rerun THEN <<>> ELSE vision_analyses
         queue == SelectSeq([i \in 1..Len(sightings) |-> i],
                            LAMBDA sid : cleared[sid].image_path
                                         /\ AnalysesOf(audits, sid) = {})
     IN  /\ sightings' = cleared
         /\ vision_analyses' = audits
         /\ vb' = [pc |-> "loop", queue |-> queue, sid |-> 0, vision |-> NoVision]
  /\ UNCHANGED <<pipelineVars, bf>>

\* one iteration: analyze_image, and update_species for an accepted result
VisionBackfillRow(vis) ==
  /\ vb.pc = "loop" /\ vb.queue # <<>>
  /\ LET sid == Head(vb.queue)
     IN  /\ vision_analyses' = RecordAnalysis(vision_analyses, sid, vis)
         /\ sightings' = IF AcceptedBackfill(vis)
                         THEN update_species(sightings, sid, vis.species,
                                             ConfidenceOfBackfill(vis.confidence),
                                             is_lifer(sightings, vis.species))
                         ELSE sightings
         /\ vb' = [pc |-> "loop", queue |-> Tail(vb.queue), sid |-> sid, vision |-> vis]
  /\ UNCHANGED <<pipelineVars, bf>>

\* the rows are exhausted: db.close()
VisionBackfillEnd ==
  /\ vb.pc = "loop" /\ vb.queue = <<>>
  /\ vb' = [vb EXCEPT !.pc = "done"]
  /\ UNCHANGED <<pipelineVars, sightings, vision_analyses, bf>>

\* SpecResolve: how the species of an event is resolved. No token is cached
\* at the start, every request is answered with a success body, the remote
\* source holds one event; the image classifier and the vendor answer
\* anything; the vision backfill may run beside the pipeline
ResolveVision == VisionResults \cup {FailedVision}

NextResolve ==
  \/ RunStart
  \/ Wake
  \/ Tick(IngestTicks)
  \/ \E w \in {<<>>, <<1>>} : ApiReturns(OkResponse, w)
  \/ CycleReturns
  \/ SkipKnown
  \/ \E img \in {"saved", "failed"}, vis \in ResolveVision : ProcessEventBegin(img, vis)
  \/ \E video \in BOOLEAN, vendor \in VendorGuesses :
       ProcessEventVideo(video, vendor, FALSE)
  \/ LiferAlertDone
  \/ \E rerun \in BOOLEAN : VisionBackfillStart(rerun)
  \/ \E vis \in ResolveVision \ {NoVision} : VisionBackfillRow(vis)
  \/ VisionBackfillEnd

SpecResolve == InitHealth /\ [][NextResolve]_vars

\* ------------------------------------------------- the species resolver
\* the classifier reports a bird and names a species
NamesBird(v) == v.ok /\ v.is_bird /\ v.species # None /\ v.species # ""

\* the step in which _process_event persists the species of its event
Resolves == pc = "video" /\ ~inputs.done /\ inputs'.done

\* C14: an event whose video was fetched and whose audio the acoustic
\* classifier scores at or above the threshold is persisted with the
\* acoustic species and its raw score, whatever the image classifier names;
\* below the threshold an accepted image result is persisted.
C14_AcousticPrecedence ==
  [][Resolves =>
       LET row == sightings'[inputs.sid]
           heard == analyze(AudioOf(row.trace_id))
       IN  row.video_path =>
             /\ heard # NoDetection =>
                  row.species = heard.species /\ row.confidence = heard.confidence
             /\ (heard = NoDetection /\ NamesBird(inputs.vision)) =>
                  row.species = inputs.vision.species]_vars

\* C15: _process_event persists the image classifier's species exactly
\* when the classifier reports a bird and names a species, the vendor's guess
\* with the vendor's confidence exactly when it does not and the vendor names
\* a bird, and a null species otherwise.
C15_ImageThenVendor ==
  [][Resolves =>
       LET row == sightings'[inputs.sid]
           v == inputs.vision
           g == inputs'.vendor
           byVendor == /\ g.bird_name # ""
                       /\ row.species = g.bird_name
                       /\ row.confidence = g.bird_confidence
       IN  /\ NamesBird(v) => row.species = v.species /\ row.confidence = loc.confidence
           /\ byVendor <=> (~NamesBird(v) /\ g.bird_name # "")
           /\ (~NamesBird(v) /\ g.bird_name = "") =>
                row.species = None /\ row.confidence = NoConfidence]_vars

C15_Witness ==
  /\ inputs.done /\ vb.pc = "off"
  /\ inputs.vision.ok /\ ~inputs.vision.is_bird /\ inputs.vision.species \in Species
  /\ inputs.vendor.bird_name \in Species
  /\ inputs.vendor.bird_name # inputs.vision.species
  /\ sightings[inputs.sid].species = inputs.vendor.bird_name
  /\ sightings[inputs.sid].confidence = inputs.vendor.bird_confidence

\* the confidence the spec gives each label, in hundredths
ExactConfidence(label) ==
  IF label = "high" THEN 90
  ELSE IF label = "medium" THEN 70
  ELSE IF label = "low" THEN 40
  ELSE 50

\* the step in which the vision backfill has analysed one sighting
BackfillAnalyses == vb.pc = "loop" /\ vb'.pc = "loop" /\ vb' # vb

\* C16: when _process_event, or one iteration of the vision backfill,
\* persists an accepted image classification, the confidence it writes is
\* 0.9 for "high", 0.7 for "medium", 0.4 for "low" and 0.5 for any other or
\* missing label.
C16_ConfidenceOfLabel ==
  [][/\ (Resolves /\ NamesBird(inputs.vision)) =>
          sightings'[inputs.sid].confidence = ExactConfidence(inputs.vision.confidence)
     /\ (BackfillAnalyses /\ NamesBird(vb'.vision)) =>
          sightings'[vb'.sid].confidence = ExactConfidence(vb'.vision.confidence)]_vars

C16_Witness ==
  /\ inputs.done /\ NamesBird(inputs.vision)
  /\ inputs.vision.confidence = "certain"
  /\ sightings[inputs.sid].confidence = 50
  /\ vb.sid = inputs.sid /\ NamesBird(vb.vision)

\* ------------------------------------------------ backfill.py, backfill()
\* everything of the pipeline task but the tables and the count of inserts
taskVars == <<now, authVars, pc, cyc, attempt, wake, healthVars, events, loc,
              lifer_alerts, alerts, callLog, lastOkAt, streakAlerts, lastCycle,
              completed, cycleStart, inputs, appVars>>

\* the script starts: get_events over the last three days returned w
BackfillStart(w) ==
  /\ bf.pc = "off"
  /\ bf' = [pc |-> "loop", events |-> w, sid |-> 0]
  /\ UNCHANGED <<taskVars, insertCalls, sightings, vision_analyses, vb>>

\* if db.has_trace_id(event.trace_id): continue; otherwise download_image
\* begins
BackfillCheck ==
  /\ bf.pc = "loop" /\ bf.events # <<>>
  /\ IF has_trace_id(sightings, Head(bf.events))
     THEN bf' = [bf EXCEPT !.events = Tail(bf.events)]
     ELSE bf' = [bf EXCEPT !.pc = "insert"]
  /\ UNCHANGED <<taskVars, insertCalls, sightings, vision_analyses, vb>>

\* download_image returned and insert_sighting is called; an exception
\* leaves backfill() and ends the script
BackfillInsert(img) ==
  /\ bf.pc = "insert"
  /\ LET ins == insert_sighting(sightings, Head(bf.events), img = "saved")
     IN  IF img = "oserror"
         THEN /\ bf' = [bf EXCEPT !.pc = "crashed"]
              /\ UNCHANGED <<sightings, insertCalls>>
         ELSE /\ insertCalls' = [insertCalls EXCEPT ![Head(bf.events)] = @ + 1]
              /\ IF ins.raised
                 THEN /\ bf' = [bf EXCEPT !.pc = "crashed"]
                      /\ UNCHANGED sightings
                 ELSE /\ bf' = [bf EXCEPT !.pc = "video", !.sid = ins.id]
                      /\ sightings' = ins.tbl
  /\ UNCHANGED <<taskVars, vision_analyses, vb>>

\* download_video, extract_audio and BirdNET, the vendor fallback and
\* update_species; audio: the video was fetched and its audio extracted
BackfillResolve(audio, vendor) ==
  /\ bf.pc = "video"
  /\ LET detection == IF audio THEN analyze(AudioOf(Head(bf.events))) ELSE NoDetection
         heard == detection # NoDetection
         withMedia == update_media_paths(sightings, bf.sid, audio)
         fallback == ~heard /\ vendor.bird_name # ""
         species == IF heard THEN detection.species
                    ELSE IF fallback THEN vendor.bird_name ELSE None
         confidence == IF heard THEN detection.confidence
                       ELSE IF fallback THEN vendor.bird_confidence ELSE NoConfidence
         lifer == IF fallback THEN is_lifer(withMedia, species)
                  ELSE IF heard THEN is_lifer(sightings, species) ELSE FALSE
     IN  sightings' = update_species(withMedia, bf.sid, species, confidence, lifer)
  /\ bf' = [pc |-> "loop", events |-> Tail(bf.events), sid |-> 0]
  /\ UNCHANGED <<taskVars, insertCalls, vision_analyses, vb>>

\* the events are exhausted: db.close()
BackfillEnd ==
  /\ bf.pc = "loop" /\ bf.events = <<>>
  /\ bf' = [bf EXCEPT !.pc = "done"]
  /\ UNCHANGED <<taskVars, insertCalls, sightings, vision_analyses, vb>>

\* SpecBackfill: the backfill script run beside the pipeline, on the same
\* database. No token is cached at the start, every request is answered
\* with a success body; events have no keyshot for the pipeline
NextBackfill ==
  \/ RunStart
  \/ Wake
  \/ Tick(IngestTicks)
  \/ \E w \in {v \in Windows : Len(v) <= 1} : ApiReturns(OkResponse, w)
  \/ CycleReturns
  \/ SkipKnown
  \/ ProcessEventBegin("nourl", NoVision)
  \/ \E vendor \in IngestVendor : ProcessEventVideo(FALSE, vendor, FALSE)
  \/ LiferAlertDone
  \/ \E w \in Windows : BackfillStart(w)
  \/ BackfillCheck
  \/ \E img \in {"saved", "failed"} : BackfillInsert(img)
  \/ \E audio \in BOOLEAN, vendor \in IngestVendor : BackfillResolve(audio, vendor)
  \/ BackfillEnd

SpecBackfill == InitHealth /\ [][NextBackfill]_vars

\* the step in which the backfill calls insert_sighting for a trace
\* identifier that another path has recorded since its has_trace_id check
DuplicateInsert ==
  /\ bf.pc = "insert" /\ bf' # bf
  /\ has_trace_id(sightings, Head(bf.events))

\* C17: an insert of a trace identifier that already exists does not raise:
\* it resolves to the identifier of the existing record, the table is left
\* as it is and the caller continues with that record.
C17_DuplicateInsertBenign ==
  [][DuplicateInsert =>
       /\ bf'.pc = "video"
       /\ bf'.sid \in {sightings[i].id : i \in RowsOf(Head(bf.events))}
       /\ sightings' = sightings]_vars

\* C18: whoever calls insert_sighting, and whether or not a has_trace_id
\* check came first, the table never holds two rows with one trace
\* identifier, and an insert that is rejected leaves the table as it was.
C18_StorageEnforcesUniqueness ==
  [][/\ \A t \in TraceIds :
          Cardinality({i \in 1..Len(sightings') : sightings'[i].trace_id = t}) <= 1
     /\ (DuplicateInsert /\ bf'.pc = "crashed") => sightings' = sightings]_vars

C18_Witness ==
  /\ bf.pc = "crashed"
  /\ Cardinality(RowsOf(Head(bf.events))) = 1
  /\ insertCalls[Head(bf.events)] = 2
  /\ Len(sightings) = 2

\* ------------------------------------------------- the credential's expiry
\* the credential held in memory is usable at time t
Held(t) == token # NoToken /\ t < expires_at

\* the step of _request that calls get_token and sends a request
CallsGetToken == pc = "request" /\ Len(callLog') > Len(callLog)

\* what that step added to the history of the call
Added == SubSeq(callLog', Len(callLog) + 1, Len(callLog'))

\* C19: the credential is either absent (no token, no expiry) or has an
\* expiry instant; a step that asks get_token for a token sends the held token
\* only when its expiry is later than the current time, and otherwise logs in
\* first: it never sends a token whose expiry is at or before the current
\* time, and after a successful login the request carries the freshly issued
\* token, which expires TOKEN_TTL_SECONDS from now.
C19_NoExpiredTokenReturned ==
  [][/\ token' = NoToken => expires_at' = 0
     /\ token' # NoToken => expires_at' > 0
     /\ CallsGetToken =>
          /\ Held(now) => Added[1] = LogEntry("post", token, Added[1].out)
          /\ ~Held(now) =>
               /\ Added[1].op = "login"
               /\ Added[1].out = "ok" =>
                    /\ Added[1].tok \notin {NoToken, token}
                    /\ Len(Added) >= 2
                    /\ Added[2].op = "post" /\ Added[2].tok = Added[1].tok
                    /\ Count(Added, "invalidate") = 0 =>
                         /\ token' = Added[1].tok
                         /\ expires_at' = now + TOKEN_TTL_SECONDS
          /\ \A i \in 1..Len(Added) :
               Added[i].op = "post" =>
                 /\ Added[i].tok # NoToken
                 /\ Added[i].tok = token => now < expires_at]_vars

\* the token read from the cache file expired between two cycles; the cycle
\* before this one succeeded with it, and this one logged in before sending
C19_Witness ==
  /\ pc = "events" /\ cyc = "loop"
  /\ now = 2 * TickStep /\ cycleStart = now
  /\ lastCycle.kind = "ok" /\ lastOkAt = TickStep
  /\ callLog[1] = LogEntry("login", 2, "ok")
  /\ callLog[2] = LogEntry("post", 2, "none")
  /\ token = 2 /\ expires_at = now + TOKEN_TTL_SECONDS
  /\ cache = [present |-> TRUE, token |-> 2, expires_at |-> expires_at]

\* ------------------------------------------------------------- invalidate
\* the credential of state a is absent: no token, no expiry, no cache file
Discarded(a) == a.token = NoToken /\ a.expires_at = 0 /\ a.cache = NoCache

\* C20: whatever credential the process holds (valid, expired or absent, with
\* or without a cache file), invalidate leaves no token, no expiry and no
\* cache file; the get_token that follows logs in (and raises when the login
\* fails, having no token to fall back on), and a process constructed from what
\* is left on disk loads no credential. In a call, the invalidation leaves the
\* credential absent and the next thing the call does is a login.
C20_InvalidateDiscardsCredential ==
  /\ LET a == Invalidate(AuthState)
     IN  /\ Discarded(a)
         /\ a.issued = issued
         /\ GetToken(a, now, TRUE).login /\ ~GetToken(a, now, TRUE).raised
         /\ GetToken(a, now, TRUE).tok \notin {NoToken, token}
         /\ GetToken(a, now, FALSE).login /\ GetToken(a, now, FALSE).raised
         /\ \A t \in {0, now} : LoadCachedToken(a.cache, t).token = NoToken
  /\ \A i \in 1..Len(callLog) :
       callLog[i].op = "invalidate" =>
         /\ i = Len(callLog) => Discarded(AuthState)
         /\ i < Len(callLog) => callLog[i + 1].op = "login"

\* a call sent the token read from the cache file, was refused, and has just
\* invalidated: nothing is left in memory or on disk
C20_Witness ==
  /\ pc = "request" /\ attempt = 1
  /\ issued = 1
  /\ callLog = <<LogEntry("post", 1, callLog[1].out), LogEntry("invalidate", 1, "ok")>>
  /\ Discarded(AuthState)

\* ------------------------------------------- the cache file across restarts
\* what CACHE_PATH may hold besides what _save_cached_token wrote
FarFuture == TOKEN_TTL_SECONDS      \* an expiry after the end of every run
BadToken == -1                      \* a JSON number where the token string should be
DamagedCaches ==
  {[present |-> TRUE, damage |-> "not json"],
   [present |-> TRUE, damage |-> "not an object"],
   [present |-> TRUE, damage |-> "no expires_at", token |-> 1],
   [present |-> TRUE, damage |-> "no token", expires_at |-> FarFuture],
   [present |-> TRUE, damage |-> "expires_at not a number", token |-> 1],
   [present |-> TRUE, damage |-> "token not a string", token |-> BadToken,
    expires_at |-> FarFuture]}

\* the file is one that _save_cached_token wrote, or no file at all
WellFormed(c) == "damage" \notin DOMAIN c

NothingLoaded == [raised |-> FALSE, token |-> NoToken, expires_at |-> 0]

\* AuthManager._load_cached_token on any file: json.loads raises
\* JSONDecodeError and data["token"] raises KeyError, which are caught;
\* data.get on a list raises AttributeError and the comparison of a string
\* with time.time() raises TypeError, which are not
load_cached_token(c, t) ==
  IF WellFormed(c)
  THEN [raised |-> FALSE, token |-> LoadCachedToken(c, t).token,
        expires_at |-> LoadCachedToken(c, t).expires_at]
  ELSE CASE c.damage = "not json" -> NothingLoaded
         [] c.damage = "not an object" -> [NothingLoaded EXCEPT !.raised = TRUE]
         [] c.damage = "no expires_at" -> NothingLoaded
         [] c.damage = "no token" -> NothingLoaded
         [] c.damage = "expires_at not a number" -> [NothingLoaded EXCEPT !.raised = TRUE]
         [] c.damage = "token not a string" ->
              IF c.expires_at > t
              THEN [raised |-> FALSE, token |-> c.token, expires_at |-> c.expires_at]
              ELSE NothingLoaded

\* the process is stopped at any point and started again by its supervisor:
\* AuthManager() reads the file found on disk, and when the constructor
\* raises the process ends before the pipeline exists
Restart(file) ==
  /\ cache' = file
  /\ LET r == load_cached_token(file, now)
     IN  /\ token' = r.token /\ expires_at' = r.expires_at
         /\ pc' = IF r.raised THEN "crashed" ELSE "init"
  /\ cyc' = "boot" /\ attempt' = 0 /\ wake' = 0
  /\ last_success' = now /\ error_alerted' = FALSE
  /\ events' = <<>> /\ loc' = NoLoc
  /\ callLog' = <<>> /\ lastOkAt' = now /\ streakAlerts' = 0
  /\ lastCycle' = [kind |-> "none", elapsed |-> 0]
  /\ cycleStart' = now /\ inputs' = NoInputs
  /\ UNCHANGED <<now, issued, sightings, lifer_alerts, alerts, completed, insertCalls,
                 vision_analyses, scriptVars, appVars>>

\* what the login endpoint may answer
LoginResponses ==
  {[kind |-> "transport"]} \cup
  [kind : {"json"}, result : {-1, 0}, has_token : BOOLEAN]

\* _login raises: raise_for_status, result != 0, or body["data"]["token"]["token"]
LoginRaises(r) ==
  IF r.kind = "transport" THEN TRUE
  ELSE IF r.result # 0 THEN TRUE
  ELSE ~r.has_token

\* SpecRestart: the API slice of Spec, with a supervisor that restarts the
\* process and a disk on which the cache file may have been damaged
NextRestart ==
  \/ RunStart
  \/ Wake
  \/ Tick(ApiTicks)
  \/ \E r \in LoginResponses : LoginRaises(r) /\ ApiLoginFails
  \/ ApiTransportError
  \/ \E resp \in Responses : ApiAuthFailure(resp)
  \/ \E resp \in Responses : ApiReturns(resp, <<>>)
  \/ CycleReturns
  \/ \E file \in {cache} \cup DamagedCaches : Restart(file)

SpecRestart == Init /\ [][NextRestart]_vars

\* the step in which the process starts again
Restarts == pc' \in {"init", "crashed"} /\ callLog' = <<>> /\ cycleStart' = now

\* C21: a successful login leaves its token and expiry in the cache file; a
\* process started from a file that a login wrote loads the credential exactly
\* when its expiry is later than the time of the start, the get_token that
\* follows then returns that token without a login, and the first request of
\* the new process carries it; a file whose expiry has passed loads nothing.
C21_CacheSurvivesRestart ==
  [][/\ (CallsGetToken /\ Added[1].op = "login" /\ Added[1].out = "ok"
           /\ Count(Added, "invalidate") = 0) =>
          cache' = [present |-> TRUE, token |-> Added[1].tok,
                    expires_at |-> now + TOKEN_TTL_SECONDS]
     /\ (Restarts /\ WellFormed(cache')) =>
          IF cache'.present /\ now < cache'.expires_at
          THEN /\ pc' = "init"
               /\ token' = cache'.token /\ expires_at' = cache'.expires_at
               /\ \A ok \in BOOLEAN :
                    /\ ~GetToken(AuthState', now, ok).login
                    /\ GetToken(AuthState', now, ok).tok = cache'.token
          ELSE token' = NoToken /\ expires_at' = 0
     /\ (CallsGetToken /\ cyc = "boot" /\ callLog = <<>> /\ WellFormed(cache)
           /\ cache.present /\ now < cache.expires_at) =>
          Added[1] = LogEntry("post", cache.token, Added[1].out)]_vars

\* token 2 was issued by a login before the restart; the bootstrap call of the
\* restarted process has sent it without logging in
C21_Witness ==
  /\ cyc = "boot" /\ pc = "events"
  /\ token = 2 /\ issued = 2
  /\ cache = [present |-> TRUE, token |-> 2, expires_at |-> expires_at]
  /\ callLog[1] = LogEntry("post", 2, "none")
  /\ Count(callLog, "login") = 0

\* C22: constructing the credential manager never raises because of the cache
\* file, and from a file that is absent or damaged the manager starts with
\* no credential, so that the next get_token logs in.
C22_ConstructorToleratesCacheFile ==
  [][Restarts =>
       /\ pc' = "init"
       /\ (~cache'.present \/ ~WellFormed(cache')) =>
            /\ token' = NoToken /\ expires_at' = 0
            /\ GetToken(AuthState', now, TRUE).login]_vars

\* C23: a login that fails is the last thing its call does: the exception
\* reaches run(), the token and expiry in memory and the cache file are what
\* they were, no credential is held, and the next get_token logs in again.
C23_FailedLoginStoresNothing ==
  [][(CallsGetToken /\ Added[1].op = "login" /\ Added[1].out = "raised") =>
       /\ Len(Added) = 1
       /\ UNCHANGED <<token, expires_at, cache, issued>>
       /\ pc' \in {"dead", "sleep", "alert"}
       /\ lastCycle'.kind \in {"died", "fail"}
       /\ ~(token' # NoToken /\ now' < expires_at')
       /\ \A ok \in BOOLEAN : GetToken(AuthState', now', ok).login]_vars

\* the token read from the cache file had expired, the login of a loop cycle
\* failed, and the expired token and the file are still what they were
C23_Witness ==
  /\ pc = "sleep" /\ cyc = "loop" /\ lastCycle.kind = "fail"
  /\ callLog = <<LogEntry("login", NoToken, "raised")>>
  /\ token = 1 /\ expires_at <= now /\ issued = 1
  /\ cache = [present |-> TRUE, token |-> 1, expires_at |-> expires_at]

\* ------------------------------------------------- the audit trail of vision
\* analyze_image got as far as the classifier call (it had a key and a file)
Reached(vision) == vision # NoVision

\* the step of _process_event that inserts the sighting and analyses its image
PipelineAnalyses == pc = "events" /\ pc' = "video"

\* table `after` is table `before` and exactly one more row, of sighting sid,
\* carrying an error exactly when the analysis gave no result
OneMoreRow(before, after, sid, vision) ==
  /\ Len(after) = Len(before) + 1
  /\ SubSeq(after, 1, Len(before)) = before
  /\ after[Len(after)].sighting_id = sid
  /\ after[Len(after)].error <=> ~vision.ok

\* C24: an analysis that reaches the classifier call leaves exactly one more
\* audit row, for the sighting analysed, whether it gave a result or failed
\* (in the pipeline and in the vision backfill), and one that does not reach
\* it leaves none; after a failed analysis the event has no species from the
\* image, its processing goes on to the video, and the species then stored is
\* the vendor's guess when there is one.
C24_OneAuditRowPerAnalysis ==
  [][/\ PipelineAnalyses =>
          /\ IF Reached(inputs'.vision)
             THEN /\ OneMoreRow(vision_analyses, vision_analyses', inputs'.sid,
                                inputs'.vision)
                  /\ Cardinality(AnalysesOf(vision_analyses', inputs'.sid)) = 1
             ELSE vision_analyses' = vision_analyses
          /\ ~inputs'.vision.ok => loc'.species = None /\ ~loc'.is_lifer
     /\ BackfillAnalyses =>
          OneMoreRow(vision_analyses, vision_analyses', vb'.sid, vb'.vision)
     /\ (Resolves /\ ~inputs.vision.ok) =>
          /\ pc' \in {"events", "lifer"}
          /\ sightings'[inputs.sid].species =
               IF inputs'.vendor.bird_name # "" THEN inputs'.vendor.bird_name ELSE None]_vars

\* the classifier failed on the image of an event, the failure is on record,
\* and the event went on to take the vendor's species
C24_Witness ==
  /\ inputs.done /\ inputs.vision = FailedVision
  /\ inputs.vendor.bird_name = "Blue Jay"
  /\ sightings[inputs.sid].species = "Blue Jay"
  /\ \E i \in 1..Len(vision_analyses) :
       /\ AnalysesOf(vision_analyses, inputs.sid) = {i}
       /\ vision_analyses[i].error

LastAlert == lifer_alerts'[Len(lifer_alerts')]

\* C26: the step that analyses the image of a new event has first created
\* its sighting row, with null species, confidence and lifer flag and no
\* video, and every audit row belongs to an existing sighting; when
\* download_video returns, the image step of that event is over (its result
\* is in the locals) and the row has no video yet; a lifer alert is emitted
\* only in the step that has stored the species and the lifer flag.
C26_StepsInOrder ==
  [][/\ PipelineAnalyses =>
          /\ Len(sightings') = Len(sightings) + 1
          /\ loc'.sighting_id = Len(sightings')
          /\ sightings'[Len(sightings')] =
               [id |-> Len(sightings'), trace_id |-> Head(events), species |-> None,
                confidence |-> NoConfidence, is_lifer |-> FALSE,
                image_path |-> loc'.image_path, video_path |-> FALSE]
          /\ lifer_alerts' = lifer_alerts
     /\ \A i \in 1..Len(vision_analyses') :
          vision_analyses'[i].sighting_id \in 1..Len(sightings')
     /\ Resolves =>
          /\ inputs.sid = loc.sighting_id
          /\ loc.species = IF Accepted(inputs.vision) THEN inputs.vision.species ELSE None
          /\ ~sightings[loc.sighting_id].video_path
     /\ lifer_alerts' # lifer_alerts =>
          /\ Resolves /\ pc' = "lifer"
          /\ lifer_alerts' = Append(lifer_alerts, LastAlert)
          /\ LastAlert.sighting_id = loc.sighting_id
          /\ sightings'[LastAlert.sighting_id].species = LastAlert.species
          /\ sightings'[LastAlert.sighting_id].is_lifer
          /\ LastAlert.species \notin {None, ""}]_vars

\* an event whose image named a new bird went through the three steps: its
\* row has the species, the lifer flag and the video, and the alert was sent
C26_Witness ==
  /\ pc = "lifer" /\ inputs.done
  /\ Accepted(inputs.vision)
  /\ lifer_alerts = <<[sighting_id |-> loc.sighting_id, species |-> inputs.vision.species]>>
  /\ sightings[loc.sighting_id].species = inputs.vision.species
  /\ sightings[loc.sighting_id].is_lifer
  /\ sightings[loc.sighting_id].video_path

\* an event of the list is being processed: between insert_sighting and the
\* return of _process_event
InProcess == pc \in {"video", "lifer"}

\* C27: the events of a cycle are taken from the head of the fetched list, one
\* at a time: the dedup check of an event is made only when no event is in
\* process, the event in process is the head of the list, the list advances by
\* one when its processing (storing and notifying included) has returned, and
\* lifer alerts are emitted in the order in which the events were inserted.
C27_EventsSequential ==
  [][/\ (pc = "events" /\ events # <<>>) => loc = NoLoc
     /\ PipelineAnalyses =>
          /\ events' = events
          /\ sightings'[Len(sightings')].trace_id = Head(events)
          /\ \A i \in 1..Len(lifer_alerts) :
               lifer_alerts[i].sighting_id < loc'.sighting_id
     /\ InProcess =>
          /\ events # <<>> /\ loc.trace_id = Head(events)
          /\ sightings[loc.sighting_id].trace_id = loc.trace_id
          /\ (InProcess' /\ pc' # pc) =>
               /\ pc = "video" /\ pc' = "lifer" /\ events' = events
               /\ loc'.sighting_id = loc.sighting_id
          /\ pc' = "events" =>
               /\ events' = Tail(events)
               /\ loc.sighting_id \in completed'
     /\ lifer_alerts' # lifer_alerts =>
          /\ LastAlert.sighting_id = loc.sighting_id
          /\ \A i \in 1..Len(lifer_alerts) :
               lifer_alerts[i].sighting_id < LastAlert.sighting_id]_vars

\* two events of one window were new birds: both alerts went out, in the
\* order of the window, the second after the first event was completed
C27_Witness ==
  /\ pc = "lifer" /\ Len(events) = 1
  /\ Len(lifer_alerts) = 2
  /\ lifer_alerts[1].sighting_id = 1 /\ lifer_alerts[2].sighting_id = 2
  /\ sightings[1].trace_id # sightings[2].trace_id
  /\ 1 \in completed /\ 2 \notin completed
  /\ insertCalls[sightings[1].trace_id] = 1 /\ insertCalls[sightings[2].trace_id] = 1

\* ------------------------------------------- main._run and the event loop
\* Everything runs on one asyncio event loop. The pipeline task gives the loop
\* back only at its awaits: asyncio.sleep, the ffmpeg subprocess, and the two
\* Telegram sends. get_events and the login (requests.post), download_image
\* (requests.get) and analyze_image (the SDK's synchronous client) are called
\* without await, so the task keeps the loop until they return
LoopFree == pc \notin {"request", "events"}

\* the user sends a command to the bot
CommandArrives ==
  /\ commands.pending + commands.handled < MaxCommands
  /\ commands' = [commands EXCEPT !.pending = @ + 1]
  /\ UNCHANGED <<now, authVars, pc, cyc, attempt, wake, healthVars, events, loc, sightings,
                 lifer_alerts, alerts, callLog, histVars, cycleStart, inputs,
                 vision_analyses, scriptVars, main>>

\* (mutant) a handler that relabels the sightings it shows
HandleCommand_relabels ==
  /\ main.pc = "waiting"
  /\ LoopFree
  /\ commands.pending > 0
  /\ commands' = [pending |-> commands.pending - 1, handled |-> commands.handled + 1]
  /\ sightings' = [i \in 1..Len(sightings) |->
                     [sightings[i] EXCEPT !.species = "Blue Jay"]]
  /\ UNCHANGED <<now, authVars, pc, cyc, attempt, wake, healthVars, events, loc,
                 lifer_alerts, alerts, callLog, histVars, cycleStart, inputs,
                 vision_analyses, scriptVars, main>>

\* the updater's polling task receives it and a handler of TelegramBot runs
HandleCommand ==
  /\ main.pc = "waiting"
  /\ LoopFree
  /\ commands.pending > 0
  /\ commands' = [pending |-> commands.pending - 1, handled |-> commands.handled + 1]
  /\ UNCHANGED <<now, authVars, pc, cyc, attempt, wake, healthVars, events, loc, sightings,
                 lifer_alerts, alerts, callLog, histVars, cycleStart, inputs,
                 vision_analyses, scriptVars, main>>

\* SIGINT or SIGTERM is delivered; _signal_handler sets stop_event
ShutdownSignal ==
  /\ main.pc = "waiting" /\ ~main.stop
  /\ main' = [main EXCEPT !.stop = TRUE]
  /\ UNCHANGED <<now, authVars, pc, cyc, attempt, wake, healthVars, events, loc, sightings,
                 lifer_alerts, alerts, callLog, histVars, cycleStart, inputs,
                 vision_analyses, scriptVars, commands>>

\* _run resumes from stop_event.wait(): pipeline_task.cancel() and await task.
\* A task suspended at an await gets CancelledError there, which no except
\* Exception block of the pipeline catches; a task that has ended with an
\* exception hands that exception to await task, which _run does not catch
ShutdownCancel ==
  /\ main.pc = "waiting" /\ main.stop
  /\ LoopFree
  /\ IF pc = "dead"
     THEN /\ main' = [main EXCEPT !.pc = "raised"]
          /\ UNCHANGED pc
     ELSE /\ main' = [main EXCEPT !.pc = "stopping"]
          /\ pc' = "cancelled"
  /\ UNCHANGED <<now, authVars, cyc, attempt, wake, healthVars, events, loc, sightings,
                 lifer_alerts, alerts, callLog, histVars, cycleStart, inputs,
                 vision_analyses, scriptVars, commands>>

\* the bot is stopped and db.close() is called; _run returns
ShutdownClose ==
  /\ main.pc = "stopping"
  /\ main' = [main EXCEPT !.pc = "ended", !.closed = TRUE]
  /\ UNCHANGED <<now, authVars, pc, cyc, attempt, wake, healthVars, events, loc, sightings,
                 lifer_alerts, alerts, callLog, histVars, cycleStart, inputs,
                 vision_analyses, scriptVars, commands>>

\* send_lifer_alert returns after its send raised: the except block logged it.
\* The outcome is kept in the history of the alert
LiferAlertFails ==
  /\ pc = "lifer"
  /\ pc' = "events"
  /\ events' = Tail(events) /\ loc' = NoLoc
  /\ completed' = completed \cup {loc.sighting_id}
  /\ lifer_alerts' = [lifer_alerts EXCEPT ![Len(lifer_alerts)] =
                        [sighting_id |-> @.sighting_id, species |-> @.species,
                         failed |-> TRUE]]
  /\ UNCHANGED <<now, authVars, cyc, attempt, wake, healthVars, sightings,
                 alerts, callLog, lastOkAt, streakAlerts, lastCycle, insertCalls>>
  /\ UNCHANGED <<cycleStart, inputs, vision_analyses, scriptVars, appVars>>

\* SpecApp: the pipeline task beside the command handlers and the shutdown
\* sequence of _run. No token is cached at the start, the API answers with a
\* success body or fails in transport, the source holds one event, which the
\* vendor may name; every send may fail
NextApp ==
  \/ RunStart
  \/ Wake
  \/ Tick(AppTicks)
  \/ ApiTransportError
  \/ \E w \in {<<>>, <<1>>} : ApiReturns(OkResponse, w)
  \/ CycleReturns
  \/ SkipKnown
  \/ ProcessEventBegin("nourl", NoVision)
  \/ \E vendor \in IngestVendor : ProcessEventVideo(FALSE, vendor, FALSE)
  \/ LiferAlertDone
  \/ LiferAlertFails
  \/ \E delivered \in BOOLEAN : HealthAlertDone(delivered)
  \/ CommandArrives
  \/ HandleCommand
  \/ ShutdownSignal
  \/ ShutdownCancel
  \/ ShutdownClose

SpecApp == InitHealth /\ [][NextApp]_vars

\* the pipeline task is inside an outbound call that it does not await: the
\* event-list request or the login, or the keyshot download and the image
\* classification of a new event
InFlight ==
  \/ pc = "request"
  \/ pc = "events" /\ events # <<>> /\ ~has_trace_id(sightings, Head(events))

\* C28: while the pipeline is inside an outbound call of a poll cycle and a
\* command of the user is waiting, the command handler can take its step.
C28_CommandsServedDuringCycle ==
  (InFlight /\ main.pc = "waiting" /\ commands.pending > 0) => ENABLED HandleCommand

\* C29: when _run has ended after a shutdown signal, whatever the pipeline
\* task was doing, the poll loop is cancelled or over and the repository has
\* been closed; once it is closed the pipeline task takes no step and the
\* tables do not change.
C29_ShutdownClosesRepository ==
  [][/\ main'.pc \in {"ended", "raised"} =>
          /\ main'.stop
          /\ pc' \in {"cancelled", "dead"}
          /\ main'.closed
     /\ main.closed => UNCHANGED <<pc, sightings, vision_analyses, lifer_alerts, alerts>>]_vars

\* a send of its alert failed
LiferSendFails == pc = "lifer" /\ lifer_alerts' # lifer_alerts
HealthSendFails ==
  /\ pc = "alert" /\ pc' # "alert" /\ main' = main
  /\ ~alerts'[Len(alerts')].delivered

\* C30: when the send of a lifer alert fails, _process_event returns as it
\* does after a send: the sighting rows are unchanged, the event is completed,
\* the loop goes on to the next event, and neither the outcome of the cycle nor
\* the health state changes; when the send of a health alert fails, run() goes
\* on to the next sleep, without another failure being counted and without
\* touching the sightings. A cycle is counted as failed only in a step of the
\* API request.
C30_SendFailureSwallowed ==
  [][/\ LiferSendFails =>
          /\ pc' = "events" /\ events' = Tail(events)
          /\ loc.sighting_id \in completed'
          /\ Len(lifer_alerts') = Len(lifer_alerts)
          /\ UNCHANGED <<sightings, lastCycle, alerts, streakAlerts, last_success>>
     /\ HealthSendFails =>
          /\ pc' = "sleep" /\ wake' = now + POLL_INTERVAL_SECONDS
          /\ Len(alerts') = Len(alerts)
          /\ UNCHANGED <<sightings, lastCycle, streakAlerts, last_success, cyc>>
     /\ (lastCycle' # lastCycle /\ lastCycle'.kind \in {"fail", "died"}) => pc = "request"]_vars

\* the send of the lifer alert of event 1 failed and its row is as it was
\* stored, the cycle of that event ended well, and later the send of a health
\* alert failed too and the loop is asleep until the next cycle
C30_Witness ==
  /\ pc = "sleep" /\ wake = now + POLL_INTERVAL_SECONDS
  /\ lifer_alerts = <<[sighting_id |-> 1, species |-> "Blue Jay", failed |-> TRUE]>>
  /\ sightings[1].species = "Blue Jay" /\ sightings[1].is_lifer
  /\ 1 \in completed
  /\ lastOkAt = 0
  /\ Len(alerts) = 1 /\ ~alerts[1].delivered
  /\ lastCycle.kind = "fail"

\* ------------------------------------------------ corrections of the species
\* SpecCorrect: the vision backfill correcting what the pipeline stored. No
\* token is cached at the start, every request is answered with a success
\* body, the source holds up to two events; the pipeline saves the keyshot
\* but has no classifier key, so the species is the vendor's or none; the
\* vision backfill, run without --rerun, then analyses the images
CorrectVision ==
  {FailedVision} \cup
  {[ok |-> TRUE, is_bird |-> TRUE, species |-> "Blue Jay", confidence |-> "high"]}

\* the windows of the source in which no event appears twice, oldest first
CorrectWindows ==
  {w \in Windows : \A i, j \in 1..Len(w) : i < j => w[i] < w[j]}

NextCorrect ==
  \/ RunStart
  \/ Wake
  \/ Tick(IngestTicks)
  \/ \E w \in CorrectWindows : ApiReturns(OkResponse, w)
  \/ CycleReturns
  \/ SkipKnown
  \/ ProcessEventBegin("saved", NoVision)
  \/ \E vendor \in IngestVendor : ProcessEventVideo(FALSE, vendor, FALSE)
  \/ LiferAlertDone
  \/ VisionBackfillStart(FALSE)
  \/ \E vis \in CorrectVision : VisionBackfillRow(vis)
  \/ VisionBackfillEnd

SpecCorrect == InitHealth /\ [][NextCorrect]_vars

\* table `after` differs from table `before` at most in the species,
\* confidence and lifer flag of sighting sid (and in `also`, a set of further
\* fields of that sighting)
OnlySpeciesOf(before, after, sid, also) ==
  /\ Len(after) = Len(before)
  /\ \A j \in 1..Len(before) :
       IF j = sid
       THEN \A f \in DOMAIN before[j] \ ({"species", "confidence", "is_lifer"} \cup also) :
              after[j][f] = before[j][f]
       ELSE after[j] = before[j]

\* C31: update_species changes the species, the confidence and the lifer flag
\* of the sighting it addresses and nothing else: in the step of the pipeline
\* that stores the species of an event (which may also set its video path)
\* and in the step of the vision backfill that corrects a sighting, every
\* other sighting keeps all its fields, its lifer flag included; and so does
\* update_species applied to any sighting of the table with any values.
C31_LiferNotRecomputed ==
  [][/\ Resolves => OnlySpeciesOf(sightings, sightings', loc.sighting_id, {"video_path"})
     /\ BackfillAnalyses => OnlySpeciesOf(sightings, sightings', vb'.sid, {})
     /\ \A sid \in 1..Len(sightings), sp \in Species \cup {None}, lifer \in BOOLEAN :
          LET after == update_species(sightings, sid, sp, ConfidenceOf("high"), lifer)
          IN  /\ OnlySpeciesOf(sightings, after, sid, {})
              /\ after[sid].species = sp /\ after[sid].is_lifer = lifer]_vars

\* the later sighting was the lifer of its species; the backfill then gave the
\* earlier one the same species, and the flag of the later one is as it was
C31_Witness ==
  /\ vb.pc = "loop" /\ vb.sid = 1
  /\ Len(sightings) = 2
  /\ sightings[1].species = "Blue Jay" /\ ~sightings[1].is_lifer
  /\ sightings[2].species = "Blue Jay" /\ sightings[2].is_lifer

\* ------------------------------------------------- the repository's updates
\* SpecMedia: the sightings table under the calls of its callers, with the
\* three path columns of the schema kept as values: insert_sighting with or
\* without a keyshot path, update_media_paths with any of its three keyword
\* arguments passed or left None, update_species
PathColumns == {"video_path", "audio_path", "image_path"}
PathArgs == [PathColumns -> {None, "new.path"}]

\* (mutant) update_media_paths that writes all three columns, passed or not
update_paths_writes_all(tbl, sid, args) ==
  [i \in 1..Len(tbl) |->
     IF tbl[i].id = sid
     THEN [f \in DOMAIN tbl[i] |-> IF f \in PathColumns THEN args[f] ELSE tbl[i][f]]
     ELSE tbl[i]]

\* Database.update_media_paths(sighting_id, video_path, audio_path,
\* image_path): args maps each column to the value passed, None when the
\* argument is left out; no statement runs when all are None
update_paths(tbl, sid, args) ==
  IF \A f \in PathColumns : args[f] = None THEN tbl
  ELSE [i \in 1..Len(tbl) |->
          IF tbl[i].id = sid
          THEN [f \in DOMAIN tbl[i] |->
                  IF f \in PathColumns /\ args[f] # None THEN args[f] ELSE tbl[i][f]]
          ELSE tbl[i]]

\* Database.insert_sighting with the path columns of the row it creates;
\* the events arrive in the order of their trace identifiers
RepoInsert(trace, image_path) ==
  /\ Len(sightings) < MaxTrace
  /\ trace = Len(sightings) + 1
  /\ sightings' = Append(sightings,
       [id |-> Len(sightings) + 1, trace_id |-> trace, species |-> None,
        confidence |-> NoConfidence, is_lifer |-> FALSE,
        image_path |-> image_path, video_path |-> None, audio_path |-> None])
  /\ UNCHANGED <<pipelineVars, vision_analyses, scriptVars>>

RepoUpdateMedia(sid, args) ==
  /\ sid \in 1..Len(sightings)
  /\ sightings' = update_paths(sightings, sid, args)
  /\ UNCHANGED <<pipelineVars, vision_analyses, scriptVars>>

RepoUpdateSpecies(sid, species, lifer) ==
  /\ sid \in 1..Len(sightings)
  /\ sightings' = update_species(sightings, sid, species, ConfidenceOf("high"), lifer)
  /\ UNCHANGED <<pipelineVars, vision_analyses, scriptVars>>

NextMedia ==
  \/ \E trace \in TraceIds, image_path \in {None, "old.path"} : RepoInsert(trace, image_path)
  \/ \E sid \in TraceIds, args \in PathArgs : RepoUpdateMedia(sid, args)
  \/ \E sid \in TraceIds, lifer \in BOOLEAN : RepoUpdateSpecies(sid, "Blue Jay", lifer)

SpecMedia == InitHealth /\ [][NextMedia]_vars

\* C32: update_media_paths changes, on the sighting it addresses, exactly the
\* path columns passed with a value and nothing else, and changes nothing when
\* no column is passed; a second application of the same update_media_paths,
\* or of the same update_species, leaves the table as the first one left it.
C32_PartialIdempotentUpdates ==
  \A sid \in 1..Len(sightings) :
    /\ \A args \in PathArgs :
         LET once == update_paths(sightings, sid, args)
         IN  /\ Len(once) = Len(sightings)
             /\ \A j \in 1..Len(sightings) :
                  IF j = sid
                  THEN \A f \in DOMAIN sightings[j] :
                         once[j][f] = IF f \in PathColumns /\ args[f] # None
                                      THEN args[f] ELSE sightings[j][f]
                  ELSE once[j] = sightings[j]
             /\ update_paths(once, sid, args) = once
    /\ \A sp \in Species \cup {None}, lifer \in BOOLEAN :
         LET once == update_species(sightings, sid, sp, ConfidenceOf("high"), lifer)
         IN  update_species(once, sid, sp, ConfidenceOf("high"), lifer) = once

\* the first sighting had its keyshot path replaced and a video path added,
\* its audio path was never passed; the second one kept the keyshot path it
\* was inserted with
C32_Witness ==
  /\ Len(sightings) = 2
  /\ sightings[1].image_path = "new.path" /\ sightings[1].video_path = "new.path"
  /\ sightings[1].audio_path = None /\ sightings[1].species = "Blue Jay"
  /\ sightings[2].image_path = "old.path" /\ sightings[2].video_path = None

\* ------------------------------------------------------------ lazy refresh
\* C33: the credential is refreshed lazily. A login happens only in a step
\* that calls get_token, as the first thing of that step, and only when no
\* unexpired token is held; no other step changes the credential or the cache
\* file. get_token called while an unexpired token is held returns that token
\* without a login and leaves the credential and the cache file as they are
\* (they change in that step only if the response makes _request invalidate).
C33_RefreshIsLazy ==
  [][/\ ~CallsGetToken => UNCHANGED authVars
     /\ CallsGetToken =>
          /\ \A i \in 1..Len(Added) : Added[i].op = "login" => i = 1 /\ ~Held(now)
          /\ Held(now) =>
               /\ \A ok \in BOOLEAN :
                    GetToken(AuthState, now, ok) =
                      [raised |-> FALSE, login |-> FALSE, tok |-> token, auth |-> AuthState]
               /\ Added[1] = LogEntry("post", token, Added[1].out)
               /\ Count(Added, "invalidate") = 0 => UNCHANGED authVars]_vars

\* a cycle of the loop, after time has passed, whose request carried the token
\* held since the bootstrap cycle: no login, credential and cache untouched
C33_Witness ==
  /\ pc = "events" /\ cyc = "loop" /\ now > 0
  /\ Len(callLog) = 2 /\ callLog[1] = LogEntry("post", token, "none")
  /\ callLog[2].op = "return"
  /\ token # NoToken /\ now < expires_at
  /\ cache = [present |-> TRUE, token |-> token, expires_at |-> expires_at]

\* ------------------------------------------------------ one lifer a species
LifersOf(sp) == {i \in 1..Len(sightings) : sightings[i].species = sp /\ sightings[i].is_lifer}
LiferAlertsOf(sp) == {i \in 1..Len(lifer_alerts) : lifer_alerts[i].species = sp}

\* C34: when the pipeline is the only writer of species (no backfill runs),
\* at most one persisted sighting of each species has is_lifer = TRUE, and
\* send_lifer_alert is called at most once for each species.
C34_OneLiferPerSpecies ==
  \A sp \in Species :
    /\ Cardinality(LifersOf(sp)) <= 1
    /\ Cardinality(LiferAlertsOf(sp)) <= 1

\* two completed sightings of one species: the first the lifer with the one
\* alert, the second neither
C34_Witness ==
  /\ completed = {1, 2} /\ pc = "sleep"
  /\ sightings[1].species = "Blue Jay" /\ sightings[2].species = "Blue Jay"
  /\ LifersOf("Blue Jay") = {1}
  /\ Cardinality(LiferAlertsOf("Blue Jay")) = 1 /\ lifer_alerts[1].sighting_id = 1

\* ------------------------------------------------------- success responses
\* the JSON responses in which one of the two status fields carries 0
SuccessResponses ==
  {resp \in Responses :
     /\ resp.kind = "json"
     /\ \/ Has(resp.body, "code") /\ resp.body.code = 0
        \/ Has(resp.body, "result") /\ resp.body.result = 0}

\* C35: while _request is in its first attempt, a response that carries 0 in
\* its code or its result field is not answered by invalidating the
\* credential and retrying, whatever its msg and whichever field carries the
\* 0: the body is returned to the caller (as long as the login endpoint can
\* still issue the token the attempt needs).
C35_SuccessReturnedAtOnce ==
  (pc = "request" /\ attempt = 0) =>
    \A resp \in SuccessResponses :
      /\ ~ ENABLED ApiAuthFailure(resp)
      /\ CanIssue(TokenFor(TRUE)) => ENABLED ApiReturns(resp, <<>>)

\* ------------------------------------------------- non-zero status, no auth
\* SpecStatus: the health tracker when the API answers with any JSON body
\* that is not an authentication failure, or fails in transport. No token is
\* cached at the start; the remote source holds event 1 in every window, so
\* get_events returns an empty list only for a body whose status is not 0
StatusResponses == {resp \in Responses : resp.kind = "json" /\ ~IsAuthFailure(resp)}

NextStatus ==
  \/ RunStart
  \/ Wake
  \/ Tick(HealthTicks)
  \/ ApiTransportError
  \/ \E resp \in StatusResponses : ApiReturns(resp, <<1>>)
  \/ CycleReturns
  \/ SkipKnown
  \/ ProcessEventBegin("nourl", NoVision)
  \/ ProcessEventVideo(FALSE, NoGuess, FALSE)
  \/ HealthAlertDone(TRUE)

SpecStatus == InitHealth /\ [][NextStatus]_vars

\* _request returned a body and get_events returned an empty list
EmptyListReturned == pc = "request" /\ pc' = "events" /\ events' = <<>>

\* C39: for a body whose status is not 0 and that is no authentication
\* failure get_events returns an empty list although the source holds an
\* event; the step in which _request returns such a body
\* raises nothing and alerts nothing, it leaves the sightings and the health
\* tracker as they are and the for loop with nothing to iterate; and a
\* _poll_cycle whose for loop has nothing left returns normally: no sighting
\* is touched, and in the loop last_success becomes the current time and the
\* suppression flag is cleared, as after a cycle that found only known events.
C39_ErrorCodeIsEmptySuccess ==
  [][/\ \A resp \in StatusResponses :
          StatusCode(resp.body) # 0 => ParseEvents(resp.body, <<1>>) = <<>>
     /\ EmptyListReturned =>
          /\ LastOf(callLog').op = "return"
          /\ UNCHANGED <<sightings, lifer_alerts, alerts, lastCycle, healthVars>>
     /\ (pc = "events" /\ events = <<>> /\ pc' # pc) =>
          /\ pc' = "sleep" /\ lastCycle' = [kind |-> "ok", elapsed |-> 0]
          /\ UNCHANGED <<sightings, lifer_alerts, alerts>>
          /\ cyc = "loop" => last_success' = now /\ ~error_alerted']_vars

\* the tracker had alerted; a cycle then ended normally and reset it although
\* the event the source holds has never been processed: its body carried a
\* status other than 0
C39_Witness ==
  /\ CycleSucceeded /\ cyc = "loop"
  /\ sightings = <<>> /\ insertCalls[1] = 0
  /\ Len(alerts) = 1 /\ ~error_alerted /\ last_success = now
  /\ LastOf(callLog).op = "return"

\* ------------------------------------------------------ interrupted events
\* SpecInterrupt: an event whose processing is interrupted. No token is cached
\* at the start and every request is answered with a success body; the remote
\* source holds no event or event 1, there is no keyshot, the vendor names a
\* species, and the UPDATE of update_species may raise
NextInterrupt ==
  \/ RunStart
  \/ Wake
  \/ Tick(HealthTicks)
  \/ \E w \in {<<>>, <<1>>} : ApiReturns(OkResponse, w)
  \/ CycleReturns
  \/ SkipKnown
  \/ ProcessEventBegin("nourl", NoVision)
  \/ \E dbError \in BOOLEAN :
       ProcessEventVideo(FALSE, [bird_name |-> "Blue Jay", bird_confidence |-> 85], dbError)
  \/ LiferAlertDone
  \/ HealthAlertDone(TRUE)

SpecInterrupt == InitHealth /\ [][NextInterrupt]_vars

\* the dedup check of _poll_cycle finds the head of the fetched list among
\* the sightings and goes on to the next event
SkipsEvent ==
  /\ pc = "events" /\ events # <<>>
  /\ has_trace_id(sightings, Head(events))
  /\ events' = Tail(events)

\* C36: an event whose processing was interrupted between insert_sighting
\* and update_species is taken up again by the cycle that fetches it next.
\* The vendor names the species of every event here, so a cycle passes over a
\* fetched event as known only if the sighting of that event has its
\* species: no sighting is left for good in the state in which
\* insert_sighting created it.
C36_InterruptedEventResumed ==
  [][SkipsEvent =>
       \A i \in 1..Len(sightings) :
         sightings[i].trace_id = Head(events) => sightings[i].species # None]_vars

\* --------------------------------------------- the tasks beside the pipeline
\* the timer of _daily_summary_loop fires while the pipeline task is
\* suspended: send_daily_summary reads today's sightings and sends the
\* digest; it is counted with the handled requests of the bot
DailySummary ==
  /\ main.pc = "waiting"
  /\ LoopFree
  /\ commands.pending + commands.handled < MaxCommands
  /\ commands' = [commands EXCEPT !.handled = @ + 1]
  /\ UNCHANGED <<now, authVars, pc, cyc, attempt, wake, healthVars, events, loc, sightings,
                 lifer_alerts, alerts, callLog, histVars, cycleStart, inputs,
                 vision_analyses, scriptVars, main>>

\* SpecTasks: the pipeline beside the command handlers and the daily summary.
\* No token is cached at the start and every request is answered with a
\* success body; the source holds up to two events, the keyshot of each is
\* saved and the image classifier names one species, so that is_lifer is
\* queried before the await of download_video
TaskVision == [ok |-> TRUE, is_bird |-> TRUE, species |-> "Blue Jay", confidence |-> "high"]

NextTasks ==
  \/ RunStart
  \/ Wake
  \/ Tick(IngestTicks)
  \/ \E w \in CorrectWindows : ApiReturns(OkResponse, w)
  \/ CycleReturns
  \/ SkipKnown
  \/ ProcessEventBegin("saved", TaskVision)
  \/ ProcessEventVideo(TRUE, NoGuess, FALSE)
  \/ LiferAlertDone
  \/ CommandArrives
  \/ HandleCommand
  \/ DailySummary

SpecTasks == InitHealth /\ [][NextTasks]_vars

\* C37: no task beside the pipeline writes to the sightings: a step of a
\* command handler or of the daily summary leaves the table as it is, and
\* while _process_event is suspended in download_video, after its is_lifer
\* query, the table does not change; so the lifer flag that update_species
\* then stores for the event is what is_lifer returns for its species on the
\* table at the moment of the write.
C37_NoWriteDuringSuspension ==
  [][/\ commands'.handled # commands.handled =>
          UNCHANGED <<sightings, vision_analyses, lifer_alerts>>
     /\ (pc = "video" /\ pc' = "video") => UNCHANGED sightings
     /\ Resolves =>
          LET row == sightings'[loc.sighting_id]
          IN  /\ row.species = inputs.vision.species
              /\ row.is_lifer = is_lifer(sightings, row.species)]_vars

\* the pipeline is suspended in download_video with the lifer flag of the
\* event already computed, and a command of the user is ready to be handled
C37_Witness ==
  /\ pc = "video" /\ loc.is_lifer /\ loc.species = "Blue Jay"
  /\ commands.pending > 0 /\ main.pc = "waiting"
  /\ ENABLED HandleCommand

\* ------------------------------------------------- lifers have a species
NoSpecies == {None, ""}

\* C38: every persisted sighting flagged as a lifer has a species that is
\* neither null nor empty, and every call of send_lifer_alert carries such a
\* species; when neither the image classifier nor the vendor yields a species
\* for an event, _process_event persists a null species with is_lifer = FALSE
\* and sends no lifer alert.
C38_LiferHasSpecies ==
  [][/\ \A i \in 1..Len(sightings') :
          sightings'[i].is_lifer => sightings'[i].species \notin NoSpecies
     /\ \A i \in 1..Len(lifer_alerts') : lifer_alerts'[i].species \notin NoSpecies
     /\ (Resolves /\ ~NamesBird(inputs.vision) /\ inputs'.vendor.bird_name = "") =>
          /\ sightings'[inputs.sid].species = None
          /\ ~sightings'[inputs.sid].is_lifer
          /\ lifer_alerts' = lifer_alerts /\ pc' = "events"]_vars

\* the classifier saw a bird and named it with the empty string, the vendor
\* named nothing: the event is done with a null species, no lifer, no alert
C38_Witness ==
  /\ inputs.done /\ inputs.sid \in completed
  /\ inputs.vision.ok /\ inputs.vision.is_bird /\ inputs.vision.species = ""
  /\ inputs.vendor.bird_name = ""
  /\ sightings[inputs.sid].species = None /\ ~sightings[inputs.sid].is_lifer
  /\ lifer_alerts = <<>>

====
